---- MODULE Spec2Model ----
(***************************************************************************)
(* ArcPool: the authorized financing ledger (Solidity contract ArcPool).   *)
(*                                                                         *)
(* The contract storage is the record `ledger`.  A transaction is a call   *)
(* record; its handler runs up to its first external value transfer, the   *)
(* recipient of the transfer then has control (and may call back into the  *)
(* contract), and the transaction ends by committing or by reverting to    *)
(* the storage it started from.                                            *)
(***************************************************************************)
EXTENDS Integers, Sequences, FiniteSets, TLC

VARIABLES ledger, now, tx, hist, backend

vars == <<ledger, now, tx, hist, backend>>

(***************************************************************************)
(* Bounds of the model.                                                    *)
(***************************************************************************)
\* number of clock advances
MaxTicks == 1
\* number of calls made back into the pool during the transfers of one transaction
MaxNested == 1
\* pool size cap, in deposits of 100000
MaxPoolUnits == 1
\* number of settings (authorizer, fee rate, fee receiver, admins) changed at a time
MaxConfigChanges == 1
\* number of days the clock of the repayment specification runs for
MaxDaysLate == 32
\* number of hours the clock of the backend specification runs for
MaxHours == 1

(***************************************************************************)
(* Identities.                                                             *)
(***************************************************************************)
ZERO == "0x0"
\* what ecrecover yields for a signature made over another digest
UNKNOWN == "0x?"
Deployer == "admin"
Accounts == {"admin", "lp", "supplier"}
Signers == {"aegis1", "aegis2"}
Addr == Accounts \cup Signers
Invoices == {"inv1", "inv2"}

AEGIS_ROLE == "AEGIS_ROLE"
ADMIN_ROLE == "ADMIN_ROLE"
DEFAULT_ADMIN_ROLE == "DEFAULT_ADMIN_ROLE"
Roles == {DEFAULT_ADMIN_ROLE, ADMIN_ROLE, AEGIS_ROLE}

NOT_ENTERED == "NOT_ENTERED"
ENTERED == "ENTERED"

DAY == 86400
BPS == 10000
MAX_FEE_RATE == 5000
DEFAULT_FEE_RATE == 1000
LATE_FEE_BPS_PER_DAY == 100
LATE_FEE_CAP_BPS == 3000

(***************************************************************************)
(* Errors: the revert reasons of the contract.                             *)
(***************************************************************************)
OK == "OK"
InvoiceAlreadyFinanced == "Invoice already financed"
SignatureExpired == "Signature expired"
InsufficientLiquidity == "Insufficient pool liquidity"
InvalidTerms == "Repayment must be greater than payout"
InvalidDueDate == "Due date must be in the future"
InvalidSignature == "Invalid signature"
TransferFailed == "Transfer failed"
PayoutTransferFailed == "USDC transfer failed"
FeeTransferFailed == "Protocol fee transfer failed"
RefundFailed == "Refund failed"
InvoiceNotFinanced == "Invoice not financed"
AlreadyRepaid == "Already repaid"
InsufficientRepayment == "Insufficient repayment amount"
ZeroAmount == "Amount must be greater than 0"
InsufficientDeposit == "Insufficient deposit"
InvalidWallet == "Invalid wallet address"
FeeRateTooHigh == "Fee rate cannot exceed 50%"
InvalidReceiver == "Invalid receiver address"
ReentrancyBlocked == "ReentrancyGuardReentrantCall"
Unauthorized == "AccessControlUnauthorizedAccount"

(***************************************************************************)
(* Storage.                                                                *)
(***************************************************************************)
NoRecord ==
    [invoiceId |-> "0x0", supplier |-> ZERO, payoutAmount |-> 0,
     repaymentAmount |-> 0, dueDate |-> 0, timestamp |-> 0, repaid |-> FALSE]

\* constructor(_aegisServerWallet) payable, called by Deployer with msg.value = seed
Constructor(aegis, seed) ==
    [aegisServerWallet |-> aegis,
     totalPoolSize |-> seed,
     availableLiquidity |-> seed,
     totalFinanced |-> 0,
     totalInterestEarned |-> 0,
     protocolFeeRate |-> DEFAULT_FEE_RATE,
     protocolFeeReceiver |-> Deployer,
     usedInvoices |-> [i \in Invoices |-> FALSE],
     lpDeposits |-> [a \in Addr |-> IF a = Deployer THEN seed ELSE 0],
     financingRecords |-> [i \in Invoices |-> NoRecord],
     roles |-> [r \in Roles |->
                  IF r = AEGIS_ROLE THEN {aegis} ELSE {Deployer}],
     status |-> NOT_ENTERED,
     balance |-> seed]

(***************************************************************************)
(* Results of running a handler: the error (OK if none), the storage it    *)
(* leaves, and the value transfers it makes, in order.                     *)
(***************************************************************************)
Fail(st, e) == [err |-> e, st |-> st, xfers |-> <<>>]
Done(st) == [err |-> OK, st |-> st, xfers |-> <<>>]
Pay(st, xf) == [err |-> OK, st |-> st, xfers |-> xf]
Transfer(to, amount, msg) == [to |-> to, amount |-> amount, msg |-> msg]

\* mutant: the error is reported but the writes made so far are kept
RevertKeepsWrites(pre, st) == st

\* mutant: the rollback misses the used-invoice markers
RevertKeepsUsedInvoices(pre, st) == [pre EXCEPT !.usedInvoices = st.usedInvoices]

\* a revert restores the storage the transaction started from
Revert(pre, st) == pre

\* mutant: the guard is taken without being checked
nonReentrantBeforeUnchecked(st) == Done([st EXCEPT !.status = ENTERED])

\* modifier nonReentrant, before the body
nonReentrantBefore(st) ==
    IF st.status = ENTERED
    THEN Fail(st, ReentrancyBlocked)
    ELSE Done([st EXCEPT !.status = ENTERED])

\* mutant: the flag is left set
nonReentrantAfterKeepsFlag(st) == st

\* modifier nonReentrant, after the body
nonReentrantAfter(st) == [st EXCEPT !.status = NOT_ENTERED]

hasRole(st, role, account) == account \in st.roles[role]

(***************************************************************************)
(* LP functions.                                                           *)
(***************************************************************************)
\* mutant: the deposit is not credited to the depositor's position
_processDepositUncredited(st, depositor, amount) ==
    IF ~(amount > 0) THEN Fail(st, ZeroAmount)
    ELSE Done([st EXCEPT !.totalPoolSize = @ + amount,
                         !.availableLiquidity = @ + amount])

_processDeposit(st, depositor, amount) ==
    IF ~(amount > 0) THEN Fail(st, ZeroAmount)
    ELSE Done([st EXCEPT !.lpDeposits[depositor] = @ + amount,
                         !.totalPoolSize = @ + amount,
                         !.availableLiquidity = @ + amount])

deposit(st, sender, value) ==
    LET g == nonReentrantBefore(st) IN
    IF g.err # OK THEN g
    ELSE _processDeposit(g.st, sender, value)

\* mutant: the value is added to the pool and to no position
receiveAsDonation(st, sender, value) ==
    Done([st EXCEPT !.totalPoolSize = @ + value, !.availableLiquidity = @ + value])

\* lines 391-394: receive() external payable
receive(st, sender, value) == _processDeposit(st, sender, value)

\* mutant: the LP position is left for after the transfer
debitTotalsOnly(st, sender, amount) ==
    [st EXCEPT !.totalPoolSize = @ - amount,
               !.availableLiquidity = @ - amount]

\* mutant: the pool size is left as it was
debitPositionOnly(st, sender, amount) ==
    [st EXCEPT !.lpDeposits[sender] = @ - amount,
               !.availableLiquidity = @ - amount]

\* lines 163-165: the storage writes of withdraw
debit(st, sender, amount) ==
    [st EXCEPT !.lpDeposits[sender] = @ - amount,
               !.totalPoolSize = @ - amount,
               !.availableLiquidity = @ - amount]

\* mutant: the amount is not checked against the sender's position
withdrawAnyPosition(st, sender, amount) ==
    LET g == nonReentrantBefore(st) IN
    IF g.err # OK THEN g
    ELSE IF ~(amount > 0) THEN Fail(g.st, ZeroAmount)
    ELSE IF ~(amount <= g.st.availableLiquidity) THEN Fail(g.st, InsufficientLiquidity)
    ELSE Pay(debit(g.st, sender, amount), <<Transfer(sender, amount, TransferFailed)>>)

withdraw(st, sender, amount) ==
    LET g == nonReentrantBefore(st) IN
    IF g.err # OK THEN g
    ELSE IF ~(amount > 0) THEN Fail(g.st, ZeroAmount)
    ELSE IF ~(amount <= g.st.lpDeposits[sender]) THEN Fail(g.st, InsufficientDeposit)
    ELSE IF ~(amount <= g.st.availableLiquidity) THEN Fail(g.st, InsufficientLiquidity)
    ELSE Pay(debit(g.st, sender, amount), <<Transfer(sender, amount, TransferFailed)>>)

(***************************************************************************)
(* EIP-712 digest and signature recovery.  Hashes are modelled as the      *)
(* tuples they are computed from (keccak256 taken as injective); a         *)
(* signature is the pair of its signer and the digest it was made over.    *)
(***************************************************************************)
\* EIP712("ArcPool", "1"): name, version, chain id, verifying contract
ThisDomain ==
    [name |-> "ArcPool", version |-> "1", chainId |-> "arc", verifyingContract |-> "pool"]

structHash(invoiceId, supplier, payoutAmount, repaymentAmount, dueDate, nonce, deadline) ==
    [invoiceId |-> invoiceId, supplier |-> supplier, payoutAmount |-> payoutAmount,
     repaymentAmount |-> repaymentAmount, dueDate |-> dueDate, nonce |-> nonce,
     deadline |-> deadline]

_hashTypedDataV4(domain, sh) == [domain |-> domain, struct |-> sh]

Sign(signer, digest) == [signer |-> signer, digest |-> digest]

\* ECDSA.recover(hash, signature)
recover(hash, signature) ==
    IF signature.digest = hash THEN signature.signer ELSE UNKNOWN

(***************************************************************************)
(* Financing functions.                                                    *)
(***************************************************************************)
\* mutant: the invoice is not marked as used
reserveAndRecordUnmarked(st, sender, a, t) ==
    [st EXCEPT !.availableLiquidity = @ - a.payoutAmount,
               !.totalFinanced = @ + a.payoutAmount,
               !.financingRecords[a.invoiceId] =
                   [invoiceId |-> a.invoiceId, supplier |-> sender,
                    payoutAmount |-> a.payoutAmount,
                    repaymentAmount |-> a.repaymentAmount,
                    dueDate |-> a.dueDate, timestamp |-> t, repaid |-> FALSE]]

\* mutant: the record is created as repaid
reserveAndRecordRepaid(st, sender, a, t) ==
    [st EXCEPT !.usedInvoices[a.invoiceId] = TRUE,
               !.availableLiquidity = @ - a.payoutAmount,
               !.totalFinanced = @ + a.payoutAmount,
               !.financingRecords[a.invoiceId] =
                   [invoiceId |-> a.invoiceId, supplier |-> sender,
                    payoutAmount |-> a.payoutAmount,
                    repaymentAmount |-> a.repaymentAmount,
                    dueDate |-> a.dueDate, timestamp |-> t, repaid |-> TRUE]]

\* mutant: the payout is taken from the position of the deployer
reserveAndRecordDebitsPosition(st, sender, a, t) ==
    [st EXCEPT !.usedInvoices[a.invoiceId] = TRUE,
               !.availableLiquidity = @ - a.payoutAmount,
               !.totalFinanced = @ + a.payoutAmount,
               !.lpDeposits[Deployer] = @ - a.payoutAmount,
               !.financingRecords[a.invoiceId] =
                   [invoiceId |-> a.invoiceId, supplier |-> sender,
                    payoutAmount |-> a.payoutAmount,
                    repaymentAmount |-> a.repaymentAmount,
                    dueDate |-> a.dueDate, timestamp |-> t, repaid |-> FALSE]]

\* lines 221-235: the storage writes of withdrawFinancing
reserveAndRecord(st, sender, a, t) ==
    [st EXCEPT !.usedInvoices[a.invoiceId] = TRUE,
               !.availableLiquidity = @ - a.payoutAmount,
               !.totalFinanced = @ + a.payoutAmount,
               !.financingRecords[a.invoiceId] =
                   [invoiceId |-> a.invoiceId, supplier |-> sender,
                    payoutAmount |-> a.payoutAmount,
                    repaymentAmount |-> a.repaymentAmount,
                    dueDate |-> a.dueDate, timestamp |-> t, repaid |-> FALSE]]

\* mutant: any identity that ever was or may become the authorizer is accepted
signatureValidAnySigner(st, sender, a) ==
    LET sh == structHash(a.invoiceId, sender, a.payoutAmount, a.repaymentAmount,
                         a.dueDate, a.nonce, a.deadline)
        hash == _hashTypedDataV4(ThisDomain, sh)
        signer == recover(hash, a.signature)
    IN signer \in Signers

\* mutant: the nonce is left out of the digest
signatureValidNoNonce(st, sender, a) ==
    LET sh == structHash(a.invoiceId, sender, a.payoutAmount, a.repaymentAmount,
                         a.dueDate, a.signature.digest.struct.nonce, a.deadline)
        hash == _hashTypedDataV4(ThisDomain, sh)
        signer == recover(hash, a.signature)
    IN signer = st.aegisServerWallet

\* mutant: the digest is built under the domain the signature was made for
signatureValidAnyDomain(st, sender, a) ==
    LET sh == structHash(a.invoiceId, sender, a.payoutAmount, a.repaymentAmount,
                         a.dueDate, a.nonce, a.deadline)
        hash == _hashTypedDataV4(a.signature.digest.domain, sh)
        signer == recover(hash, a.signature)
    IN signer = st.aegisServerWallet

\* lines 202-219: the signature check of withdrawFinancing
signatureValid(st, sender, a) ==
    LET sh == structHash(a.invoiceId, sender, a.payoutAmount, a.repaymentAmount,
                         a.dueDate, a.nonce, a.deadline)
        hash == _hashTypedDataV4(ThisDomain, sh)
        signer == recover(hash, a.signature)
    IN signer = st.aegisServerWallet

\* mutant: a payout equal to the available liquidity is turned down
hasLiquidityStrict(st, amount) == amount < st.availableLiquidity

\* line 198: require(payoutAmount <= availableLiquidity)
hasLiquidity(st, amount) == amount <= st.availableLiquidity

\* mutant: the deadline itself counts as expired
notExpiredStrict(t, deadline) == t < deadline

\* line 197: require(block.timestamp <= deadline)
notExpired(t, deadline) == t <= deadline

\* mutant: a financing is turned down once any invoice has been financed
withdrawFinancingFirstOnly(st, sender, a, t) ==
    LET g == nonReentrantBefore(st) IN
    IF g.err # OK THEN g
    ELSE IF \E i \in Invoices : g.st.usedInvoices[i] THEN Fail(g.st, InvoiceAlreadyFinanced)
    ELSE IF ~notExpired(t, a.deadline) THEN Fail(g.st, SignatureExpired)
    ELSE IF ~hasLiquidity(g.st, a.payoutAmount) THEN Fail(g.st, InsufficientLiquidity)
    ELSE IF ~(a.repaymentAmount > a.payoutAmount) THEN Fail(g.st, InvalidTerms)
    ELSE IF ~(a.dueDate > t) THEN Fail(g.st, InvalidDueDate)
    ELSE IF ~signatureValid(g.st, sender, a) THEN Fail(g.st, InvalidSignature)
    ELSE Pay(reserveAndRecord(g.st, sender, a, t),
             <<Transfer(sender, a.payoutAmount, PayoutTransferFailed)>>)

\* mutant: the deadline is checked before the invoice
withdrawFinancingDeadlineFirst(st, sender, a, t) ==
    LET g == nonReentrantBefore(st) IN
    IF g.err # OK THEN g
    ELSE IF ~notExpired(t, a.deadline) THEN Fail(g.st, SignatureExpired)
    ELSE IF ~(~g.st.usedInvoices[a.invoiceId]) THEN Fail(g.st, InvoiceAlreadyFinanced)
    ELSE IF ~hasLiquidity(g.st, a.payoutAmount) THEN Fail(g.st, InsufficientLiquidity)
    ELSE IF ~(a.repaymentAmount > a.payoutAmount) THEN Fail(g.st, InvalidTerms)
    ELSE IF ~(a.dueDate > t) THEN Fail(g.st, InvalidDueDate)
    ELSE IF ~signatureValid(g.st, sender, a) THEN Fail(g.st, InvalidSignature)
    ELSE Pay(reserveAndRecord(g.st, sender, a, t),
             <<Transfer(sender, a.payoutAmount, PayoutTransferFailed)>>)

\* lines 187-241: withdrawFinancing
withdrawFinancing(st, sender, a, t) ==
    LET g == nonReentrantBefore(st) IN
    IF g.err # OK THEN g
    ELSE IF ~(~g.st.usedInvoices[a.invoiceId]) THEN Fail(g.st, InvoiceAlreadyFinanced)
    ELSE IF ~notExpired(t, a.deadline) THEN Fail(g.st, SignatureExpired)
    ELSE IF ~hasLiquidity(g.st, a.payoutAmount) THEN Fail(g.st, InsufficientLiquidity)
    ELSE IF ~(a.repaymentAmount > a.payoutAmount) THEN Fail(g.st, InvalidTerms)
    ELSE IF ~(a.dueDate > t) THEN Fail(g.st, InvalidDueDate)
    ELSE IF ~signatureValid(g.st, sender, a) THEN Fail(g.st, InvalidSignature)
    ELSE Pay(reserveAndRecord(g.st, sender, a, t),
             <<Transfer(sender, a.payoutAmount, PayoutTransferFailed)>>)

\* mutant: the cap is left out
lateFeeUncapped(record, t) ==
    IF t > record.dueDate
    THEN (record.repaymentAmount * ((t - record.dueDate) \div DAY) * LATE_FEE_BPS_PER_DAY)
             \div BPS
    ELSE 0

\* lines 255-264: late fee, 1% per full day late, capped at 30%
lateFeeOf(record, t) ==
    IF t > record.dueDate
    THEN LET daysLate == (t - record.dueDate) \div DAY
             fee == (record.repaymentAmount * daysLate * LATE_FEE_BPS_PER_DAY) \div BPS
             maxLateFee == (record.repaymentAmount * LATE_FEE_CAP_BPS) \div BPS
         IN IF fee > maxLateFee THEN maxLateFee ELSE fee
    ELSE 0

\* mutant: the late fee is not added to the amount owed
requiredAmountWithoutLateFee(record, t) == record.repaymentAmount

\* lines 254-263: the amount owed at time t
requiredAmountOf(record, t) == record.repaymentAmount + lateFeeOf(record, t)

\* mutant: the fee is rounded up
protocolFeeRoundedUp(totalInterest, rate) == (totalInterest * rate + BPS - 1) \div BPS

\* mutant: the fee is taken at the rate of the deployment
protocolFeeAtDefaultRate(totalInterest, rate) == (totalInterest * DEFAULT_FEE_RATE) \div BPS

\* line 273: the protocol's share of the interest
protocolFeeOf(totalInterest, rate) == (totalInterest * rate) \div BPS

\* mutant: the fee transfer is made whatever the fee
feeTransferAlways(st, protocolFee) ==
    <<Transfer(st.protocolFeeReceiver, protocolFee, FeeTransferFailed)>>

\* lines 285-288: the protocol fee is sent to the fee receiver when it is not 0
feeTransfer(st, protocolFee) ==
    IF protocolFee > 0
    THEN <<Transfer(st.protocolFeeReceiver, protocolFee, FeeTransferFailed)>>
    ELSE <<>>

\* mutant: the whole repayment, not the principal, is released
markRepaidAndReleaseRepayment(st, invoiceId, lpInterest, totalInterest) ==
    LET record == st.financingRecords[invoiceId] IN
    [st EXCEPT !.financingRecords[invoiceId].repaid = TRUE,
               !.availableLiquidity = @ + record.repaymentAmount + lpInterest,
               !.totalPoolSize = @ + lpInterest,
               !.totalInterestEarned = @ + totalInterest]

\* mutant: the payout is taken off totalFinanced when the invoice is repaid
markRepaidAndReleaseFinanced(st, invoiceId, lpInterest, totalInterest) ==
    LET record == st.financingRecords[invoiceId] IN
    [st EXCEPT !.financingRecords[invoiceId].repaid = TRUE,
               !.availableLiquidity = @ + record.payoutAmount + lpInterest,
               !.totalPoolSize = @ + lpInterest,
               !.totalFinanced = @ - record.payoutAmount,
               !.totalInterestEarned = @ + totalInterest]

\* mutant: the LP interest is added to the pool size but not released
markRepaidAndReleasePrincipal(st, invoiceId, lpInterest, totalInterest) ==
    LET record == st.financingRecords[invoiceId] IN
    [st EXCEPT !.financingRecords[invoiceId].repaid = TRUE,
               !.availableLiquidity = @ + record.payoutAmount,
               !.totalPoolSize = @ + lpInterest,
               !.totalInterestEarned = @ + totalInterest]

\* mutant: the record of a repaid invoice is deleted
markRepaidAndDelete(st, invoiceId, lpInterest, totalInterest) ==
    LET record == st.financingRecords[invoiceId] IN
    [st EXCEPT !.financingRecords[invoiceId] = NoRecord,
               !.availableLiquidity = @ + record.payoutAmount + lpInterest,
               !.totalPoolSize = @ + lpInterest,
               !.totalInterestEarned = @ + totalInterest]

\* lines 276-282: the storage writes of repay
markRepaidAndRelease(st, invoiceId, lpInterest, totalInterest) ==
    LET record == st.financingRecords[invoiceId] IN
    [st EXCEPT !.financingRecords[invoiceId].repaid = TRUE,
               !.availableLiquidity = @ + record.payoutAmount + lpInterest,
               !.totalPoolSize = @ + lpInterest,
               !.totalInterestEarned = @ + totalInterest]

\* mutant: a repaid record passes the check
notRepaidUnchecked(record) == TRUE

\* line 252: require(!record.repaid)
notRepaid(record) == ~record.repaid

\* mutant: what is sent above the amount owed is kept
repayKeepsExcess(st, sender, value, invoiceId, t) ==
    LET g == nonReentrantBefore(st) IN
    IF g.err # OK THEN g
    ELSE
    LET record == g.st.financingRecords[invoiceId]
        requiredAmount == requiredAmountOf(record, t)
        totalInterest == requiredAmount - record.payoutAmount
        protocolFee == protocolFeeOf(totalInterest, g.st.protocolFeeRate)
    IN
    IF ~g.st.usedInvoices[invoiceId] THEN Fail(g.st, InvoiceNotFinanced)
    ELSE IF ~notRepaid(record) THEN Fail(g.st, AlreadyRepaid)
    ELSE IF ~(value >= requiredAmount) THEN Fail(g.st, InsufficientRepayment)
    ELSE Pay(markRepaidAndRelease(g.st, invoiceId, totalInterest - protocolFee,
                                  totalInterest),
             feeTransfer(g.st, protocolFee))

repay(st, sender, value, invoiceId, t) ==
    LET g == nonReentrantBefore(st) IN
    IF g.err # OK THEN g
    ELSE
    LET record == g.st.financingRecords[invoiceId]
        lateFee == lateFeeOf(record, t)
        requiredAmount == requiredAmountOf(record, t)
        baseInterest == record.repaymentAmount - record.payoutAmount
        totalInterest == baseInterest + lateFee
        protocolFee == protocolFeeOf(totalInterest, g.st.protocolFeeRate)
        lpInterest == totalInterest - protocolFee
        feeXfer == feeTransfer(g.st, protocolFee)
        refundXfer == IF value > requiredAmount
                      THEN <<Transfer(sender, value - requiredAmount, RefundFailed)>>
                      ELSE <<>>
    IN
    IF ~g.st.usedInvoices[invoiceId] THEN Fail(g.st, InvoiceNotFinanced)
    ELSE IF ~notRepaid(record) THEN Fail(g.st, AlreadyRepaid)
    ELSE IF ~(value >= requiredAmount) THEN Fail(g.st, InsufficientRepayment)
    ELSE Pay(markRepaidAndRelease(g.st, invoiceId, lpInterest, totalInterest),
             feeXfer \o refundXfer)

(***************************************************************************)
(* Access control (OpenZeppelin AccessControl, inherited) and the admin    *)
(* functions.                                                              *)
(***************************************************************************)
\* mutant: the caller's role is not checked
onlyRoleUnchecked(st, role, sender) == Done(st)

\* modifier onlyRole(role)
onlyRole(st, role, sender) ==
    IF hasRole(st, role, sender) THEN Done(st) ELSE Fail(st, Unauthorized)

\* every role's admin role is DEFAULT_ADMIN_ROLE (no _setRoleAdmin in the contract)
getRoleAdmin(role) == DEFAULT_ADMIN_ROLE

grantRole(st, sender, role, account) ==
    LET g == onlyRole(st, getRoleAdmin(role), sender) IN
    IF g.err # OK THEN g
    ELSE Done([st EXCEPT !.roles[role] = @ \cup {account}])

revokeRole(st, sender, role, account) ==
    LET g == onlyRole(st, getRoleAdmin(role), sender) IN
    IF g.err # OK THEN g
    ELSE Done([st EXCEPT !.roles[role] = @ \ {account}])

\* mutant: the role is moved but aegisServerWallet is not written
updateAegisWalletRoleOnly(st, sender, newWallet) ==
    LET g == onlyRole(st, ADMIN_ROLE, sender) IN
    IF g.err # OK THEN g
    ELSE IF ~(newWallet # ZERO) THEN Fail(st, InvalidWallet)
    ELSE
    LET r1 == revokeRole(st, sender, AEGIS_ROLE, st.aegisServerWallet)
    IN IF r1.err # OK THEN r1
       ELSE grantRole(r1.st, sender, AEGIS_ROLE, newWallet)

updateAegisWallet(st, sender, newWallet) ==
    LET g == onlyRole(st, ADMIN_ROLE, sender) IN
    IF g.err # OK THEN g
    ELSE IF ~(newWallet # ZERO) THEN Fail(st, InvalidWallet)
    ELSE
    LET oldWallet == st.aegisServerWallet
        st1 == [st EXCEPT !.aegisServerWallet = newWallet]
        r1 == revokeRole(st1, sender, AEGIS_ROLE, oldWallet)
    IN IF r1.err # OK THEN r1
       ELSE grantRole(r1.st, sender, AEGIS_ROLE, newWallet)

\* mutant: the rate is not capped
updateProtocolFeeRateUncapped(st, sender, newRate) ==
    LET g == onlyRole(st, ADMIN_ROLE, sender) IN
    IF g.err # OK THEN g
    ELSE Done([st EXCEPT !.protocolFeeRate = newRate])

updateProtocolFeeRate(st, sender, newRate) ==
    LET g == onlyRole(st, ADMIN_ROLE, sender) IN
    IF g.err # OK THEN g
    ELSE IF ~(newRate <= MAX_FEE_RATE) THEN Fail(st, FeeRateTooHigh)
    ELSE Done([st EXCEPT !.protocolFeeRate = newRate])

\* mutant: the new receiver is sent the interest earned so far
updateProtocolFeeReceiverPaysOut(st, sender, newReceiver) ==
    LET g == onlyRole(st, ADMIN_ROLE, sender) IN
    IF g.err # OK THEN g
    ELSE IF ~(newReceiver # ZERO) THEN Fail(st, InvalidReceiver)
    ELSE Pay([st EXCEPT !.protocolFeeReceiver = newReceiver],
             <<Transfer(newReceiver, st.totalInterestEarned, FeeTransferFailed)>>)

updateProtocolFeeReceiver(st, sender, newReceiver) ==
    LET g == onlyRole(st, ADMIN_ROLE, sender) IN
    IF g.err # OK THEN g
    ELSE IF ~(newReceiver # ZERO) THEN Fail(st, InvalidReceiver)
    ELSE Done([st EXCEPT !.protocolFeeReceiver = newReceiver])

(***************************************************************************)
(* The backend (AegisService): it signs the financing of an invoice with   *)
(* the configured key, and verifies the signatures it issued.  An amount   *)
(* of value * 10^decimals wei is counted in units of 10^12 wei, the unit   *)
(* of the pool the backend serves in this model: with 18 decimals it is    *)
(* value * 10^6 units; with fewer than 12 decimals it is less than a unit  *)
(* for the values of the model, and is written as the negative of its      *)
(* number of wei, which no number of units is equal to.                    *)
(***************************************************************************)
HOUR == 3600
USDC_DECIMALS == 18
VERIFIED_REPAYMENT_DECIMALS == 6
UNIT_DECIMALS == 12
DEFAULT_CHAIN_ID == "421614"

\* ethers.parseUnits(value.toString(), decimals), value a whole number
parseUnits(value, decimals) ==
    LET RECURSIVE Pow10(_)
        Pow10(k) == IF k = 0 THEN 1 ELSE 10 * Pow10(k - 1)
    IN IF value = 0 THEN 0
       ELSE IF decimals >= UNIT_DECIMALS THEN value * Pow10(decimals - UNIT_DECIMALS)
       ELSE -(value * Pow10(decimals))

\* ethers.id(invoiceId): the bytes32 id of the backend's invoice id
id(invoiceId) == IF invoiceId = "INV-001" THEN "inv1" ELSE "inv2"

\* the configuration: the identity of SERVER_WALLET_PRIVATE_KEY, and the
\* values of AEGIS_SERVER_WALLET, ARC_CONTRACT_ADDRESS and ARC_CHAIN_ID
Config(key, wallet, contract, chain) ==
    [SERVER_WALLET_PRIVATE_KEY |-> key, AEGIS_SERVER_WALLET |-> wallet,
     ARC_CONTRACT_ADDRESS |-> contract, ARC_CHAIN_ID |-> chain]

\* the domain both functions build: chain id 421614 when none is configured
domainOf(cfg) ==
    [name |-> "ArcPool", version |-> "1",
     chainId |-> IF cfg.ARC_CHAIN_ID = "unset" THEN DEFAULT_CHAIN_ID ELSE cfg.ARC_CHAIN_ID,
     verifyingContract |-> cfg.ARC_CONTRACT_ADDRESS]

\* mutant: the deadline is taken in milliseconds, as the nonce is
deadlineInMillis(ms) == ms + HOUR

\* line 610: Math.floor(Date.now() / 1000) + 3600
deadlineOf(ms) == ms \div 1000 + HOUR

\* line 611: Math.floor(Date.now() / 1000) + daysUntilDue * 24 * 60 * 60
dueDateOf(ms, daysUntilDue) == ms \div 1000 + daysUntilDue * 24 * 60 * 60

\* clock: the values of the three reads of Date.now(), in milliseconds
generateFinancingSignature(cfg, invoiceId, supplierAddress, payoutAmount, repaymentAmount, daysUntilDue, clock) ==
    LET nonce == clock[1]
        deadline == deadlineOf(clock[2])
        dueDate == dueDateOf(clock[3], daysUntilDue)
        payoutAmountWei == parseUnits(payoutAmount, USDC_DECIMALS)
        repaymentAmountWei == parseUnits(repaymentAmount, USDC_DECIMALS)
        values == structHash(id(invoiceId), supplierAddress, payoutAmountWei,
                             repaymentAmountWei, dueDate, nonce, deadline)
    IN [signature |-> Sign(cfg.SERVER_WALLET_PRIVATE_KEY,
                           _hashTypedDataV4(domainOf(cfg), values)),
        nonce |-> nonce,
        deadline |-> deadline,
        repaymentAmount |-> repaymentAmount,
        dueDate |-> dueDate]

verifyFinancingSignature(cfg, invoiceId, supplierAddress, payoutAmount, signatureData) ==
    LET payoutAmountWei == parseUnits(payoutAmount, USDC_DECIMALS)
        repaymentAmountWei ==
            parseUnits(signatureData.repaymentAmount, VERIFIED_REPAYMENT_DECIMALS)
        values == structHash(id(invoiceId), supplierAddress, payoutAmountWei,
                             repaymentAmountWei, signatureData.dueDate,
                             signatureData.nonce, signatureData.deadline)
        recoveredAddress == recover(_hashTypedDataV4(domainOf(cfg), values),
                                    signatureData.signature)
    IN recoveredAddress = cfg.AEGIS_SERVER_WALLET

\* the backend: its configuration, the last request it signed, the signature
\* data it returned, and the result of the last verification (<<>>: none)
NoBackend == [config |-> <<>>, request |-> <<>>, issued |-> <<>>, verified |-> <<>>]

(***************************************************************************)
(* Transactions.  A call is [op, sender, value, args]; msg.value is        *)
(* credited to the contract's balance when the call starts.                *)
(***************************************************************************)
Call(op, sender, value, args) ==
    [op |-> op, sender |-> sender, value |-> value, args |-> args]

NoArgs == [none |-> TRUE]
NoCall == Call("none", ZERO, 0, NoArgs)

Guarded == {"deposit", "withdraw", "withdrawFinancing", "repay"}

\* the function the call selects, run on storage st at block.timestamp t
Entry(st, c, t) ==
    CASE c.op = "deposit" -> deposit(st, c.sender, c.value)
      [] c.op = "receive" -> receive(st, c.sender, c.value)
      [] c.op = "withdraw" -> withdraw(st, c.sender, c.args.amount)
      [] c.op = "withdrawFinancing" -> withdrawFinancing(st, c.sender, c.args, t)
      [] c.op = "repay" -> repay(st, c.sender, c.value, c.args.invoiceId, t)
      [] c.op = "updateAegisWallet" -> updateAegisWallet(st, c.sender, c.args.newWallet)
      [] c.op = "updateProtocolFeeRate" -> updateProtocolFeeRate(st, c.sender, c.args.newRate)
      [] c.op = "updateProtocolFeeReceiver" ->
             updateProtocolFeeReceiver(st, c.sender, c.args.newReceiver)
      [] c.op = "grantRole" -> grantRole(st, c.sender, c.args.role, c.args.account)
      [] c.op = "revokeRole" -> revokeRole(st, c.sender, c.args.role, c.args.account)

Run(st, c, t) == Entry([st EXCEPT !.balance = @ + c.value], c, t)

\* the end of the function body: the guard is released by the guarded functions
Exit(st, c) == IF c.op \in Guarded THEN nonReentrantAfter(st) ELSE st

NoInner == [call |-> NoCall, err |-> OK, pre |-> <<>>]

Idle ==
    [pc |-> "idle", call |-> NoCall, pre |-> <<>>, err |-> OK,
     pending |-> <<>>, inner |-> NoInner, nInner |-> 0]

Finished(c, pre, err, n) ==
    [pc |-> "done", call |-> c, pre |-> pre, err |-> err,
     pending |-> <<>>, inner |-> NoInner, nInner |-> n]

\* the call c, started on storage pre, has reached storage st with the transfers
\* xfers left to make: make the next one, or end the function
Advance(c, pre, st, xfers, n) ==
    IF xfers = <<>>
    THEN [ledger |-> Exit(st, c), tx |-> Finished(c, pre, OK, n)]
    ELSE LET x == Head(xfers) IN
         IF st.balance < x.amount
         THEN [ledger |-> Revert(pre, st), tx |-> Finished(c, pre, x.msg, n)]
         ELSE [ledger |-> [st EXCEPT !.balance = @ - x.amount],
               tx |-> [pc |-> "call", call |-> c, pre |-> pre, err |-> OK,
                       pending |-> xfers, inner |-> NoInner, nInner |-> n]]

\* history: the number of withdrawFinancing transactions that committed, per
\* invoice, and the LP interest of the repay transactions that committed
NoHistory == [financed |-> [i \in Invoices |-> 0], lpInterest |-> 0]

\* the LP share of the interest of a repay of invoiceId on storage st at time t
lpInterestOf(st, invoiceId, t) ==
    LET record == st.financingRecords[invoiceId]
        totalInterest == requiredAmountOf(record, t) - record.payoutAmount
    IN totalInterest - protocolFeeOf(totalInterest, st.protocolFeeRate)

Committed(h, t, time) ==
    IF t.pc = "done" /\ t.err = OK /\ t.call.op = "withdrawFinancing"
    THEN [h EXCEPT !.financed[t.call.args.invoiceId] = @ + 1]
    ELSE IF t.pc = "done" /\ t.err = OK /\ t.call.op = "repay"
    THEN [h EXCEPT !.lpInterest = @ + lpInterestOf(t.pre, t.call.args.invoiceId, time)]
    ELSE h

\* a transaction starts: its function runs up to its first transfer
Begin(c) ==
    /\ tx.pc = "idle"
    /\ LET r == Run(ledger, c, now)
           n == IF r.err # OK
                THEN [ledger |-> Revert(ledger, r.st), tx |-> Finished(c, ledger, r.err, 0)]
                ELSE Advance(c, ledger, r.st, r.xfers, 0)
       IN /\ ledger' = n.ledger
          /\ tx' = n.tx
          /\ hist' = Committed(hist, n.tx, now)
    /\ UNCHANGED <<now, backend>>

\* storage after a nested call that ran to its end: its own transfers are made
Settled(st, c, xfers) ==
    LET RECURSIVE Total(_)
        Total(xs) == IF xs = <<>> THEN 0 ELSE Head(xs).amount + Total(Tail(xs))
    IN Exit([st EXCEPT !.balance = @ - Total(xfers)], c)

\* the recipient of the transfer in progress calls back into the contract
Reenter(c) ==
    /\ tx.pc = "call"
    /\ tx.nInner < MaxNested
    /\ c.sender = Head(tx.pending).to
    /\ LET r == Run(ledger, c, now) IN
       /\ ledger' = IF r.err # OK THEN Revert(ledger, r.st) ELSE Settled(r.st, c, r.xfers)
       /\ tx' = [tx EXCEPT !.inner = [call |-> c, err |-> r.err, pre |-> ledger],
                           !.nInner = @ + 1]
    /\ UNCHANGED <<now, hist, backend>>

\* the recipient returns: the transfer succeeded or failed
TransferReturns(success) ==
    /\ tx.pc = "call"
    /\ LET x == Head(tx.pending)
           n == IF success
                THEN Advance(tx.call, tx.pre, ledger, Tail(tx.pending), tx.nInner)
                ELSE [ledger |-> Revert(tx.pre, ledger),
                      tx |-> Finished(tx.call, tx.pre, x.msg, tx.nInner)]
       IN /\ ledger' = n.ledger
          /\ tx' = n.tx
          /\ hist' = Committed(hist, n.tx, now)
    /\ UNCHANGED <<now, backend>>

\* the transaction's outcome has been returned to its sender
EndTransaction ==
    /\ tx.pc = "done"
    /\ tx' = Idle
    /\ UNCHANGED <<ledger, now, hist, backend>>

\* the clock advances by a second or by a day and a second
TickSteps == {1, DAY + 1}

\* block.timestamp advances between transactions
Tick(d) ==
    /\ tx.pc = "idle"
    /\ (now % (DAY + 1)) + (now \div (DAY + 1)) < MaxTicks
    /\ now' = now + d
    /\ UNCHANGED <<ledger, tx, hist, backend>>

(***************************************************************************)
(* The inputs the transactions are drawn from.                             *)
(***************************************************************************)
Seeds == {0, 100000}
DepositAmounts == {0, 100000}
WithdrawAmounts == {0, 100000}
RepayValues == {100000, 101000}
NewWallets == Signers \cup {ZERO}
NewRates == {5000, 5001}
NewReceivers == {"lp", ZERO}
Admins == {"admin", "lp"}
Depositors == {"admin", "lp"}
Payers == {"supplier"}
\* the arguments of grantRole and revokeRole: the admin role of an account,
\* and in the administration specification the role of the signers as well
AdminRoleChanges == {[role |-> ADMIN_ROLE, account |-> "lp"]}
RoleChanges == AdminRoleChanges \cup {[role |-> AEGIS_ROLE, account |-> s] : s \in Signers}

\* the terms signed for an invoice: payout, repayment, due date, nonce, deadline
SignedTerms(invoiceId) ==
    IF invoiceId = "inv1"
    THEN structHash(invoiceId, "supplier", 98000, 100000, 1, 1, 0)
    ELSE structHash(invoiceId, "supplier", 2000, 3005, 1, 1, 0)

\* every identity of Signers signs them, whether it is the authorizer or not
Authorizations ==
    {Sign(s, _hashTypedDataV4(ThisDomain, SignedTerms(i))) : s \in Signers, i \in Invoices}

\* the domains of other deployments: each differs from this pool's in one
\* component (name, version, chain id, contract address), the last in all
OtherDomains ==
    {[ThisDomain EXCEPT !.name = "ArcPool2"],
     [ThisDomain EXCEPT !.version = "2"],
     [ThisDomain EXCEPT !.chainId = "421614"],
     [ThisDomain EXCEPT !.verifyingContract = "pool2"],
     [name |-> "ArcPool2", version |-> "2", chainId |-> "421614",
      verifyingContract |-> "pool2"]}

\* the authorizations the signers made for those deployments, on the same terms
ForeignAuthorizations ==
    {Sign(s, _hashTypedDataV4(d, SignedTerms(i))) :
        s \in Signers, i \in Invoices, d \in OtherDomains}

\* the value a submitted field takes when it is not the signed one
Altered ==
    [invoiceId |-> [i \in Invoices |-> CHOOSE j \in Invoices : j # i],
     supplier |-> "lp", payoutAmount |-> 2500, repaymentAmount |-> 3500,
     dueDate |-> 2, nonce |-> 2, deadline |-> 1]

Fields ==
    {"invoiceId", "supplier", "payoutAmount", "repaymentAmount", "dueDate", "nonce", "deadline"}

\* the call that submits authorization sig with field f altered ("none": as signed)
Submission(sig, f) ==
    LET m == sig.digest.struct IN
    Call("withdrawFinancing",
         IF f = "supplier" THEN Altered.supplier ELSE m.supplier,
         0,
         [invoiceId |-> IF f = "invoiceId" THEN Altered.invoiceId[m.invoiceId] ELSE m.invoiceId,
          payoutAmount |-> IF f = "payoutAmount" THEN Altered.payoutAmount ELSE m.payoutAmount,
          repaymentAmount |->
              IF f = "repaymentAmount" THEN Altered.repaymentAmount ELSE m.repaymentAmount,
          dueDate |-> IF f = "dueDate" THEN Altered.dueDate ELSE m.dueDate,
          nonce |-> IF f = "nonce" THEN Altered.nonce ELSE m.nonce,
          deadline |-> IF f = "deadline" THEN Altered.deadline ELSE m.deadline,
          signature |-> sig])

Submissions == {Submission(sig, f) : sig \in Authorizations, f \in Fields \cup {"none"}}

\* the calls the recipient of a transfer makes back into the contract
NestedCalls(r) ==
    {Call("deposit", r, 100000, NoArgs), Call("receive", r, 100000, NoArgs),
     Call("withdraw", r, 0, [amount |-> 2000])}
    \cup {c \in {Submission(sig, "none") : sig \in Authorizations} : c.sender = r}
    \cup {Call("repay", r, 101000, [invoiceId |-> i]) : i \in Invoices}
    \cup {Call("updateProtocolFeeRate", r, 0, [newRate |-> 5000])}

WithinCap(c) ==
    c.op \in {"deposit", "receive"} =>
        ledger.totalPoolSize + c.value <= MaxPoolUnits * 100000

\* the number of settings that differ from the deployment's
ConfigChanges(st) ==
    (IF st.aegisServerWallet # "aegis1" THEN 1 ELSE 0)
    + (IF st.protocolFeeRate # DEFAULT_FEE_RATE THEN 1 ELSE 0)
    + (IF st.protocolFeeReceiver # Deployer THEN 1 ELSE 0)
    + (IF st.roles[ADMIN_ROLE] # {Deployer} THEN 1 ELSE 0)
    + (IF st.roles[AEGIS_ROLE] # {st.aegisServerWallet} THEN 1 ELSE 0)

WithinConfig(c) ==
    LET r == Run(ledger, c, now) IN
    r.err = OK => ConfigChanges(r.st) <= MaxConfigChanges

(***************************************************************************)
(* The state machine.                                                      *)
(***************************************************************************)
Init ==
    /\ \E seed \in Seeds : ledger = Constructor("aegis1", seed)
    /\ now = 0
    /\ tx = Idle
    /\ hist = NoHistory
    /\ backend = NoBackend

Deposit ==
    \E a \in Depositors, v \in DepositAmounts :
        LET c == Call("deposit", a, v, NoArgs) IN WithinCap(c) /\ Begin(c)

Receive ==
    \E a \in Depositors, v \in DepositAmounts :
        LET c == Call("receive", a, v, NoArgs) IN WithinCap(c) /\ Begin(c)

Withdraw ==
    \E a \in Accounts, v \in WithdrawAmounts : Begin(Call("withdraw", a, 0, [amount |-> v]))

WithdrawFinancing == \E c \in Submissions : Begin(c)

Repay ==
    \E a \in Payers, v \in RepayValues, i \in Invoices :
        Begin(Call("repay", a, v, [invoiceId |-> i]))

UpdateAegisWallet ==
    \E a \in Admins, w \in NewWallets :
        LET c == Call("updateAegisWallet", a, 0, [newWallet |-> w])
        IN WithinConfig(c) /\ Begin(c)

UpdateProtocolFeeRate ==
    \E a \in Admins, r \in NewRates :
        LET c == Call("updateProtocolFeeRate", a, 0, [newRate |-> r])
        IN WithinConfig(c) /\ Begin(c)

UpdateProtocolFeeReceiver ==
    \E a \in Admins, r \in NewReceivers :
        LET c == Call("updateProtocolFeeReceiver", a, 0, [newReceiver |-> r])
        IN WithinConfig(c) /\ Begin(c)

GrantRole ==
    \E a \in Admins, g \in AdminRoleChanges :
        LET c == Call("grantRole", a, 0, g)
        IN WithinConfig(c) /\ Begin(c)

RevokeRole ==
    \E a \in Admins, g \in AdminRoleChanges :
        LET c == Call("revokeRole", a, 0, g)
        IN WithinConfig(c) /\ Begin(c)

Reentrancy ==
    /\ tx.pc = "call"
    /\ \E c \in NestedCalls(Head(tx.pending).to) :
           WithinCap(c) /\ WithinConfig(c) /\ Reenter(c)

TransferSucceeds == TransferReturns(TRUE)

TransferFails == TransferReturns(FALSE)

Clock == \E d \in TickSteps : Tick(d)

Next ==
    \/ Deposit
    \/ Receive
    \/ Withdraw
    \/ WithdrawFinancing
    \/ Repay
    \/ UpdateAegisWallet
    \/ UpdateProtocolFeeRate
    \/ UpdateProtocolFeeReceiver
    \/ GrantRole
    \/ RevokeRole
    \/ Reentrancy
    \/ TransferSucceeds
    \/ TransferFails
    \/ EndTransaction
    \/ Clock

Spec == Init /\ [][Next]_vars

(***************************************************************************)
(* The repayment specification: an invoice was financed at time 0 and is   *)
(* due at time 1; the clock runs for MaxDaysLate days, in seconds and days, *)
(* and the supplier repays at any time.                                    *)
(***************************************************************************)
\* the terms signed for an invoice: the second one is of 20 for 50
LateTerms(invoiceId) ==
    IF invoiceId = "inv1"
    THEN SignedTerms(invoiceId)
    ELSE structHash(invoiceId, "supplier", 20, 50, 1, 1, 0)

\* the submission of the terms signed for invoice i
FinancingOf(i) ==
    Submission(Sign("aegis1", _hashTypedDataV4(ThisDomain, LateTerms(i))), "none")

\* the pool after the deployment with 100000 and the financing of invoice i
FinancedAt0(i) ==
    LET r == Run(Constructor("aegis1", 100000), FinancingOf(i), 0)
    IN Settled(r.st, FinancingOf(i), r.xfers)

\* the history of that pool
HistoryAt0(i) ==
    Committed(NoHistory, Finished(FinancingOf(i), Constructor("aegis1", 100000), OK, 0), 0)

LateRepayValues == {50, 100000, 110000, 130000}

LateSteps == {1, DAY}

LateInit ==
    /\ \E i \in Invoices :
          /\ ledger = FinancedAt0(i)
          /\ hist = HistoryAt0(i)
    /\ now = 0
    /\ tx = Idle
    /\ backend = NoBackend

LateRepay ==
    \E v \in LateRepayValues, i \in Invoices :
        Begin(Call("repay", "supplier", v, [invoiceId |-> i]))

\* block.timestamp advances between transactions, up to 2 seconds past a whole day
Elapse(d) ==
    /\ tx.pc = "idle"
    /\ (now + d) % DAY <= 2
    /\ (now + d) \div DAY <= MaxDaysLate
    /\ now' = now + d
    /\ UNCHANGED <<ledger, tx, hist, backend>>

LateClock == \E d \in LateSteps : Elapse(d)

LateRates == {0, DEFAULT_FEE_RATE}

\* the admin sets the protocol fee rate
LateFeeRate ==
    \E r \in LateRates : Begin(Call("updateProtocolFeeRate", Deployer, 0, [newRate |-> r]))

LateNext ==
    \/ LateRepay
    \/ LateFeeRate
    \/ TransferSucceeds
    \/ TransferFails
    \/ EndTransaction
    \/ LateClock

LateSpec == LateInit /\ [][LateNext]_vars

(***************************************************************************)
(* The administration specification: the settings and the roles change,    *)
(* the role of the signers included, and authorizations are submitted.     *)
(***************************************************************************)
GrantAnyRole ==
    \E a \in Admins, g \in RoleChanges :
        LET c == Call("grantRole", a, 0, g)
        IN WithinConfig(c) /\ Begin(c)

RevokeAnyRole ==
    \E a \in Admins, g \in RoleChanges :
        LET c == Call("revokeRole", a, 0, g)
        IN WithinConfig(c) /\ Begin(c)

\* the authorizations, submitted as signed
SubmitAsSigned == \E sig \in Authorizations : Begin(Submission(sig, "none"))

\* the authorizations made for other deployments, submitted to this pool
SubmitForeign == \E sig \in ForeignAuthorizations : Begin(Submission(sig, "none"))

AdminNext ==
    \/ UpdateAegisWallet
    \/ UpdateProtocolFeeRate
    \/ UpdateProtocolFeeReceiver
    \/ GrantAnyRole
    \/ RevokeAnyRole
    \/ SubmitAsSigned
    \/ SubmitForeign
    \/ Reentrancy
    \/ TransferSucceeds
    \/ TransferFails
    \/ EndTransaction

AdminSpec == Init /\ [][AdminNext]_vars

(***************************************************************************)
(* The LP specification: the pool is fresh, or has financed an invoice, or *)
(* was repaid one; accounts deposit and withdraw.                          *)
(***************************************************************************)
\* the pool after the financing of invoice i and its repayment at time 1
RepaymentOf(i) == Call("repay", "supplier", 100000, [invoiceId |-> i])

RepaidAt1(i) ==
    LET r == Run(FinancedAt0(i), RepaymentOf(i), 1)
    IN Settled(r.st, RepaymentOf(i), r.xfers)

\* the history of that pool
HistoryAt1(i) == Committed(HistoryAt0(i), Finished(RepaymentOf(i), FinancedAt0(i), OK, 0), 1)

LpPriors ==
    {[ledger |-> Constructor("aegis1", seed), hist |-> NoHistory] : seed \in Seeds}
    \cup {[ledger |-> FinancedAt0(i), hist |-> HistoryAt0(i)] : i \in Invoices}
    \cup {[ledger |-> RepaidAt1(i), hist |-> HistoryAt1(i)] : i \in Invoices}

LpAmounts == {0, 30000, 100000}

LpWithinCap(c) == ledger.totalPoolSize + c.value <= (MaxPoolUnits + 1) * 100000

LpInit ==
    /\ \E p \in LpPriors : ledger = p.ledger /\ hist = p.hist
    /\ now = 1
    /\ tx = Idle
    /\ backend = NoBackend

LpDeposit ==
    \E a \in Accounts, v \in LpAmounts :
        LET c == Call("deposit", a, v, NoArgs) IN LpWithinCap(c) /\ Begin(c)

LpWithdraw ==
    \E a \in Accounts, v \in LpAmounts : Begin(Call("withdraw", a, 0, [amount |-> v]))

LpNext ==
    \/ LpDeposit
    \/ LpWithdraw
    \/ TransferSucceeds
    \/ TransferFails
    \/ EndTransaction

LpSpec == LpInit /\ [][LpNext]_vars

(***************************************************************************)
(* The backend specification: the backend signs requests at the time of    *)
(* the clock and verifies what it signed; the supplier submits the signed  *)
(* financing to the pool, at once or after the clock has advanced.         *)
(***************************************************************************)
\* the configurations: the one of this pool, one with the key of another
\* identity, one with another AEGIS_SERVER_WALLET, one for the pool at another
\* address, and one without a chain id
Configs ==
    {Config("aegis1", "aegis1", "pool", "arc"),
     Config("aegis2", "aegis2", "pool", "arc"),
     Config("aegis1", "aegis2", "pool", "arc"),
     Config("aegis1", "aegis1", "pool2", "arc"),
     Config("aegis1", "aegis1", "pool", "unset")}

\* payoutAmount and repaymentAmount of the requests
RequestedAmounts == {<<98, 100>>, <<0, 100>>, <<0, 0>>}

Requests ==
    {[invoiceId |-> i, supplierAddress |-> "supplier", payoutAmount |-> a[1],
      repaymentAmount |-> a[2], daysUntilDue |-> d] :
        i \in {"INV-001"}, a \in RequestedAmounts, d \in {0, 1}}

\* the milliseconds of Date.now() within the second of the clock
Millis == {0, 999}

\* the pool is deployed with 100 USDC
BackendInit ==
    /\ ledger = Constructor("aegis1", parseUnits(100, USDC_DECIMALS))
    /\ now = 0
    /\ tx = Idle
    /\ hist = NoHistory
    /\ \E cfg \in Configs : backend = [NoBackend EXCEPT !.config = cfg]

\* the backend signs a request
Generate ==
    /\ tx.pc = "idle"
    /\ \E q \in Requests, m1 \in Millis, m2 \in Millis, m3 \in Millis :
          /\ m1 <= m2 /\ m2 <= m3
          /\ LET clock == <<now * 1000 + m1, now * 1000 + m2, now * 1000 + m3>>
                 data == generateFinancingSignature(
                             backend.config, q.invoiceId, q.supplierAddress,
                             q.payoutAmount, q.repaymentAmount, q.daysUntilDue, clock)
             IN backend' = [backend EXCEPT !.request = <<[q |-> q, clock |-> clock]>>,
                                           !.issued = <<data>>,
                                           !.verified = <<>>]
    /\ UNCHANGED <<ledger, now, tx, hist>>

\* the backend verifies the signature data it issued, for the payout amount
\* of the request or for another one
Verify ==
    /\ tx.pc = "idle"
    /\ backend.issued # <<>>
    /\ \E payoutAmount \in {a[1] : a \in RequestedAmounts} :
          LET q == backend.request[1].q IN
          backend' = [backend EXCEPT !.verified =
                         <<[payoutAmount |-> payoutAmount,
                            result |-> verifyFinancingSignature(
                                           backend.config, q.invoiceId, q.supplierAddress,
                                           payoutAmount, backend.issued[1])]>>]
    /\ UNCHANGED <<ledger, now, tx, hist>>

\* the call the supplier makes with the signature data it was sent
IssuedSubmission ==
    LET q == backend.request[1].q
        data == backend.issued[1]
    IN Call("withdrawFinancing", q.supplierAddress, 0,
            [invoiceId |-> id(q.invoiceId),
             payoutAmount |-> parseUnits(q.payoutAmount, USDC_DECIMALS),
             repaymentAmount |-> parseUnits(data.repaymentAmount, USDC_DECIMALS),
             dueDate |-> data.dueDate,
             nonce |-> data.nonce,
             deadline |-> data.deadline,
             signature |-> data.signature])

SubmitIssued ==
    /\ backend.issued # <<>>
    /\ Begin(IssuedSubmission)

BackendSteps == {1, HOUR}

\* block.timestamp advances between transactions, up to a second past the hour
Pass(d) ==
    /\ tx.pc = "idle"
    /\ (now + d) % HOUR <= 1
    /\ (now + d) \div HOUR <= MaxHours
    /\ now' = now + d
    /\ UNCHANGED <<ledger, tx, hist, backend>>

BackendClock == \E d \in BackendSteps : Pass(d)

BackendNext ==
    \/ Generate
    \/ Verify
    \/ SubmitIssued
    \/ TransferSucceeds
    \/ TransferFails
    \/ EndTransaction
    \/ BackendClock

BackendSpec == BackendInit /\ [][BackendNext]_vars

(***************************************************************************)
(* The terms specification: withdrawFinancing is called with every         *)
(* combination of terms, whether signed or not, on a pool of 100000.       *)
(***************************************************************************)
TermsSenders == {"supplier", "lp"}
TermsPayouts == {2000, 98000, 200000}
TermsRepayments == {2000, 3005, 100000}
TermsDueDates == {1, 2}
TermsDeadlines == {0, 1}

\* a call of withdrawFinancing with any invoice, amounts, due date, deadline
\* and authorization
TermsCalls ==
    {Call("withdrawFinancing", s, 0,
          [invoiceId |-> i, payoutAmount |-> p, repaymentAmount |-> r, dueDate |-> d,
           nonce |-> 1, deadline |-> dl, signature |-> sig]) :
        s \in TermsSenders, i \in Invoices, p \in TermsPayouts, r \in TermsRepayments,
        d \in TermsDueDates, dl \in TermsDeadlines, sig \in Authorizations}

TermsInit ==
    /\ ledger = Constructor("aegis1", 100000)
    /\ now = 0
    /\ tx = Idle
    /\ hist = NoHistory
    /\ backend = NoBackend

SubmitTerms == \E c \in TermsCalls : Begin(c)

\* the recipient of the payout submits terms during the transfer
ResubmitTerms == \E c \in TermsCalls : Reenter(c)

TermsClock == \E d \in TickSteps : Tick(d)

TermsNext ==
    \/ SubmitTerms
    \/ ResubmitTerms
    \/ TransferSucceeds
    \/ TransferFails
    \/ EndTransaction
    \/ TermsClock

TermsSpec == TermsInit /\ [][TermsNext]_vars

(***************************************************************************)
(* The nonce specification: the authorizer signs two offers for each       *)
(* invoice, under nonces 1 and 2, and the supplier submits them in any     *)
(* order on a pool of 100000.                                              *)
(***************************************************************************)
Nonces == {1, 2}

\* the offer signed for an invoice under a nonce: the repayment differs with
\* the nonce, the deadline is 1
NonceTerms(invoiceId, nonce) ==
    IF invoiceId = "inv1"
    THEN structHash(invoiceId, "supplier", 98000, 100000 + 500 * (nonce - 1), 2, nonce, 1)
    ELSE structHash(invoiceId, "supplier", 2000, 3005 + 5 * (nonce - 1), 2, nonce, 1)

NonceAuthorizations ==
    {Sign(s, _hashTypedDataV4(ThisDomain, NonceTerms(i, n))) :
        s \in Signers, i \in Invoices, n \in Nonces}

NonceInit ==
    /\ ledger = Constructor("aegis1", 100000)
    /\ now = 0
    /\ tx = Idle
    /\ hist = NoHistory
    /\ backend = NoBackend

SubmitNonce == \E sig \in NonceAuthorizations : Begin(Submission(sig, "none"))

\* the supplier submits another offer while it is being paid
ResubmitNonce == \E sig \in NonceAuthorizations : Reenter(Submission(sig, "none"))

NonceRepay ==
    \E a \in Payers, v \in RepayValues, i \in Invoices :
        Begin(Call("repay", a, v, [invoiceId |-> i]))

NonceClock == \E d \in TickSteps : Tick(d)

NonceNext ==
    \/ SubmitNonce
    \/ ResubmitNonce
    \/ NonceRepay
    \/ TransferSucceeds
    \/ TransferFails
    \/ EndTransaction
    \/ NonceClock

NonceSpec == NonceInit /\ [][NonceNext]_vars

(***************************************************************************)
(* The fee specification: an invoice was financed at time 0 on the pool as *)
(* deployed (fee rate 1000, fee receiver the deployer); the fee rate and   *)
(* the fee receiver are then changed and the invoice is repaid.            *)
(***************************************************************************)
FeeRates == {0, 2500, MAX_FEE_RATE, MAX_FEE_RATE + 1}

FeeInit ==
    /\ \E i \in Invoices :
          /\ ledger = FinancedAt0(i)
          /\ hist = HistoryAt0(i)
    /\ now = 0
    /\ tx = Idle
    /\ backend = NoBackend

FeeRate ==
    \E a \in Admins, r \in FeeRates :
        Begin(Call("updateProtocolFeeRate", a, 0, [newRate |-> r]))

FeeReceiver ==
    \E a \in Admins, r \in NewReceivers :
        Begin(Call("updateProtocolFeeReceiver", a, 0, [newReceiver |-> r]))

FeeRepay ==
    \E v \in LateRepayValues, i \in Invoices :
        Begin(Call("repay", "supplier", v, [invoiceId |-> i]))

FeeClock == \E d \in TickSteps : Tick(d)

FeeNext ==
    \/ FeeRate
    \/ FeeReceiver
    \/ FeeRepay
    \/ TransferSucceeds
    \/ TransferFails
    \/ EndTransaction
    \/ FeeClock

FeeSpec == FeeInit /\ [][FeeNext]_vars

(***************************************************************************)
(* The pool specification: on a pool deployed with 100000, accounts        *)
(* deposit, by deposit() or by a plain transfer, and withdraw, while the   *)
(* supplier has its two invoices financed and repays them.                 *)
(***************************************************************************)
PoolDepositors == {"lp", "supplier"}
PoolAmounts == {0, 30000}

\* the positions stay within the seed and MaxPoolUnits deposits
PoolWithinCap(c) ==
    ledger.lpDeposits["admin"] + ledger.lpDeposits["lp"] + ledger.lpDeposits["supplier"]
        + c.value <= 100000 + MaxPoolUnits * 30000

PoolInit ==
    /\ ledger = Constructor("aegis1", 100000)
    /\ now = 0
    /\ tx = Idle
    /\ hist = NoHistory
    /\ backend = NoBackend

PoolDeposit ==
    \E a \in PoolDepositors, v \in PoolAmounts :
        LET c == Call("deposit", a, v, NoArgs) IN PoolWithinCap(c) /\ Begin(c)

PoolReceive ==
    \E a \in PoolDepositors, v \in PoolAmounts :
        LET c == Call("receive", a, v, NoArgs) IN PoolWithinCap(c) /\ Begin(c)

\* an account withdraws nothing, 30000 or its whole position
PoolWithdraw ==
    \E a \in Accounts :
        \E v \in PoolAmounts \cup {ledger.lpDeposits[a]} :
            Begin(Call("withdraw", a, 0, [amount |-> v]))

PoolFinance ==
    \E i \in Invoices :
        Begin(Submission(Sign("aegis1", _hashTypedDataV4(ThisDomain, SignedTerms(i))), "none"))

PoolRepay ==
    \E v \in RepayValues, i \in Invoices :
        Begin(Call("repay", "supplier", v, [invoiceId |-> i]))

\* the recipient of a transfer sends value back or asks for a withdrawal
PoolReentrancy ==
    /\ tx.pc = "call"
    /\ \E c \in {Call("receive", Head(tx.pending).to, 30000, NoArgs),
                 Call("withdraw", Head(tx.pending).to, 0, [amount |-> 30000])} :
           PoolWithinCap(c) /\ Reenter(c)

PoolClock == \E d \in TickSteps : Tick(d)

PoolNext ==
    \/ PoolDeposit
    \/ PoolReceive
    \/ PoolWithdraw
    \/ PoolFinance
    \/ PoolRepay
    \/ PoolReentrancy
    \/ TransferSucceeds
    \/ TransferFails
    \/ EndTransaction
    \/ PoolClock

PoolSpec == PoolInit /\ [][PoolNext]_vars

(***************************************************************************)
(* Events (lines 104-121) and the events a call emits when it commits.     *)
(* An event is emitted at the end of its function, after the transfers,    *)
(* with values the function computed before them; a revert discards the    *)
(* events of the transaction with its writes.                              *)
(***************************************************************************)
DepositEvent(lp, amount, newTotalPoolSize) ==
    [event |-> "Deposit", lp |-> lp, amount |-> amount, newTotalPoolSize |-> newTotalPoolSize]

\* newTotalPoolSize is read when the event is emitted, after the transfer,
\* and is left out
WithdrawalEvent(lp, amount) == [event |-> "Withdrawal", lp |-> lp, amount |-> amount]

FinancingWithdrawnEvent(invoiceId, supplier, amount, timestamp) ==
    [event |-> "FinancingWithdrawn", invoiceId |-> invoiceId, supplier |-> supplier,
     amount |-> amount, timestamp |-> timestamp]

RepaymentEvent(invoiceId, payer, amount, interest, lateFee) ==
    [event |-> "Repayment", invoiceId |-> invoiceId, payer |-> payer, amount |-> amount,
     interest |-> interest, lateFee |-> lateFee]

InterestDistributedEvent(lpShare, protocolShare) ==
    [event |-> "InterestDistributed", lpShare |-> lpShare, protocolShare |-> protocolShare]

AegisWalletUpdatedEvent(oldWallet, newWallet) ==
    [event |-> "AegisWalletUpdated", oldWallet |-> oldWallet, newWallet |-> newWallet]

\* lines 266-274 and 296-297: the events of repay
repayEvents(st, sender, value, invoiceId, t) ==
    LET record == st.financingRecords[invoiceId]
        lateFee == lateFeeOf(record, t)
        baseInterest == record.repaymentAmount - record.payoutAmount
        totalInterest == baseInterest + lateFee
        protocolFee == protocolFeeOf(totalInterest, st.protocolFeeRate)
        lpInterest == totalInterest - protocolFee
    IN <<RepaymentEvent(invoiceId, sender, value, totalInterest, lateFee),
         InterestDistributedEvent(lpInterest, protocolFee)>>

\* mutant: repay emits Repayment and no InterestDistributed
EventsWithoutDistribution(st, c, t) ==
    CASE c.op \in {"deposit", "receive"} ->
             <<DepositEvent(c.sender, c.value, st.totalPoolSize + c.value)>>
      [] c.op = "withdraw" -> <<WithdrawalEvent(c.sender, c.args.amount)>>
      [] c.op = "withdrawFinancing" ->
             <<FinancingWithdrawnEvent(c.args.invoiceId, c.sender, c.args.payoutAmount, t)>>
      [] c.op = "repay" -> <<repayEvents(st, c.sender, c.value, c.args.invoiceId, t)[1]>>
      [] c.op = "updateAegisWallet" ->
             <<AegisWalletUpdatedEvent(st.aegisServerWallet, c.args.newWallet)>>
      [] OTHER -> <<>>

\* the events call c emits when it commits, on storage st at time t
Events(st, c, t) ==
    CASE c.op \in {"deposit", "receive"} ->
             <<DepositEvent(c.sender, c.value, st.totalPoolSize + c.value)>>
      [] c.op = "withdraw" -> <<WithdrawalEvent(c.sender, c.args.amount)>>
      [] c.op = "withdrawFinancing" ->
             <<FinancingWithdrawnEvent(c.args.invoiceId, c.sender, c.args.payoutAmount, t)>>
      [] c.op = "repay" -> repayEvents(st, c.sender, c.value, c.args.invoiceId, t)
      [] c.op = "updateAegisWallet" ->
             <<AegisWalletUpdatedEvent(st.aegisServerWallet, c.args.newWallet)>>
      [] OTHER -> <<>>

(***************************************************************************)
(* Properties.  A finished transaction is tx with pc = "done": tx.call is  *)
(* the call, tx.pre the storage it started from, tx.err its outcome; now   *)
(* is the time it ran at.                                                  *)
(***************************************************************************)
Finishes(op) == tx.pc = "done" /\ tx.call.op = op

Succeeds(op) == Finishes(op) /\ tx.err = OK

Nested(op) == tx.pc = "call" /\ tx.inner.call.op = op

\* the submitted values are the signed ones and the caller is the signed supplier
AsSigned(c) ==
    structHash(c.args.invoiceId, c.sender, c.args.payoutAmount, c.args.repaymentAmount,
               c.args.dueDate, c.args.nonce, c.args.deadline)
        = c.args.signature.digest.struct

\* Unfinanced, Financed or Repaid
InvoiceState(st, i) ==
    IF ~st.usedInvoices[i] THEN "Unfinanced"
    ELSE IF ~st.financingRecords[i].repaid THEN "Financed"
    ELSE "Repaid"

\* the checks of withdrawFinancing that come before the signature check
EarlierChecksPass(st, c, t) ==
    /\ ~st.usedInvoices[c.args.invoiceId]
    /\ t <= c.args.deadline
    /\ c.args.payoutAmount <= st.availableLiquidity
    /\ c.args.repaymentAmount > c.args.payoutAmount
    /\ c.args.dueDate > t

\* all the checks of withdrawFinancing
ChecksHold(st, c, t) ==
    /\ EarlierChecksPass(st, c, t)
    /\ AsSigned(c)
    /\ c.args.signature.digest.domain = ThisDomain
    /\ c.args.signature.signer = st.aegisServerWallet

\* C1: withdrawFinancing commits at most once per invoiceId; a call for an
\* invoiceId that is already used fails with "Invoice already financed",
\* whatever its other arguments and signature, and leaves the storage as it
\* was (a call made from inside a transfer is rejected too, without effect).
C1_FinancedAtMostOnce ==
    /\ \A i \in Invoices : hist.financed[i] <= 1
    /\ (Finishes("withdrawFinancing") /\ tx.pre.usedInvoices[tx.call.args.invoiceId])
           => (tx.err = InvoiceAlreadyFinanced /\ ledger = tx.pre)
    /\ (Nested("withdrawFinancing")
          /\ tx.inner.pre.usedInvoices[tx.inner.call.args.invoiceId])
           => (tx.inner.err # OK /\ ledger = tx.inner.pre)

\* a second submission of an authorization that was honoured once is rejected
C1_Witness ==
    /\ Finishes("withdrawFinancing")
    /\ tx.err = InvoiceAlreadyFinanced
    /\ AsSigned(tx.call)
    /\ tx.call.args.signature.signer = ledger.aegisServerWallet
    /\ hist.financed[tx.call.args.invoiceId] = 1
    /\ now <= tx.call.args.deadline

\* C2: withdrawFinancing succeeds only on a signature made by the identity
\* that is aegisServerWallet when the call runs; an otherwise valid call signed
\* by another identity, a replaced authorizer included, fails with "Invalid
\* signature" and changes nothing; records are created by nothing else.
C2_OnlyCurrentAuthorizer ==
    /\ (tx.pc \in {"call", "done"} /\ tx.call.op = "withdrawFinancing" /\ tx.err = OK)
           => tx.call.args.signature.signer = tx.pre.aegisServerWallet
    /\ (Finishes("withdrawFinancing")
          /\ tx.call.args.signature.signer # tx.pre.aegisServerWallet
          /\ AsSigned(tx.call)
          /\ EarlierChecksPass(tx.pre, tx.call, now))
           => (tx.err = InvalidSignature /\ ledger = tx.pre)
    /\ tx.pc = "done" =>
           \A i \in Invoices :
               (~tx.pre.usedInvoices[i] /\ ledger.usedInvoices[i])
                   => (tx.call.op = "withdrawFinancing" /\ tx.call.args.invoiceId = i)

\* the authorizer was rotated and a signature of the former one is turned down
C2_Witness ==
    /\ Finishes("withdrawFinancing")
    /\ tx.err = InvalidSignature
    /\ AsSigned(tx.call)
    /\ tx.call.args.signature.signer = "aegis1"
    /\ ledger.aegisServerWallet = "aegis2"
    /\ AEGIS_ROLE \in DOMAIN ledger.roles /\ ledger.roles[AEGIS_ROLE] = {"aegis2"}

\* C3: 0 <= availableLiquidity <= totalPoolSize in every reachable state.
C3_LiquidityWithinPool ==
    /\ 0 <= ledger.availableLiquidity
    /\ ledger.availableLiquidity <= ledger.totalPoolSize

\* an invoice is repaid with interest while another one is still financed
C3_Witness ==
    /\ Succeeds("repay")
    /\ ledger.totalPoolSize > tx.pre.totalPoolSize
    /\ ledger.availableLiquidity < ledger.totalPoolSize
    /\ ledger.availableLiquidity > tx.pre.availableLiquidity

\* C4: an invoice moves only Unfinanced -> Financed, by a withdrawFinancing
\* that succeeds for it, and Financed -> Repaid, by a repay that succeeds for
\* it; repay fails with "Invoice not financed" on an Unfinanced invoice and
\* with "Already repaid" on a Repaid one; a transaction never resets repaid.
C4_InvoiceLifecycle ==
    /\ tx.pc = "done" =>
         \A i \in Invoices :
            LET before == InvoiceState(tx.pre, i)
                after == InvoiceState(ledger, i)
            IN /\ before # after =>
                    \/ /\ before = "Unfinanced" /\ after = "Financed"
                       /\ Succeeds("withdrawFinancing") /\ tx.call.args.invoiceId = i
                    \/ /\ before = "Financed" /\ after = "Repaid"
                       /\ Succeeds("repay") /\ tx.call.args.invoiceId = i
               /\ tx.pre.financingRecords[i].repaid => ledger.financingRecords[i].repaid
    /\ Finishes("repay") =>
         LET before == InvoiceState(tx.pre, tx.call.args.invoiceId) IN
         /\ before = "Unfinanced" => (tx.err = InvoiceNotFinanced /\ ledger = tx.pre)
         /\ before = "Repaid" => (tx.err = AlreadyRepaid /\ ledger = tx.pre)
         /\ tx.err = OK => before = "Financed"

\* a second repayment of a repaid invoice is turned down
C4_Witness ==
    /\ Finishes("repay")
    /\ tx.err = AlreadyRepaid
    /\ InvoiceState(ledger, tx.call.args.invoiceId) = "Repaid"
    /\ tx.call.value >= ledger.financingRecords[tx.call.args.invoiceId].repaymentAmount

\* C5: a transaction that fails, for whatever reason, leaves the whole
\* storage (totals, LP positions, records, used invoices, authorizer, roles,
\* fee settings, balance) as it was before the call; so does a nested call.
C5_AllOrNothing ==
    /\ (tx.pc = "done" /\ tx.err # OK) => ledger = tx.pre
    /\ (tx.pc = "call" /\ tx.inner.call.op # "none" /\ tx.inner.err # OK)
           => ledger = tx.inner.pre

\* an admin without the default admin role rotates the authorizer: the call
\* fails at revokeRole, after aegisServerWallet was written
C5_Witness ==
    /\ Finishes("updateAegisWallet")
    /\ tx.err = Unauthorized
    /\ hasRole(ledger, ADMIN_ROLE, tx.call.sender)
    /\ tx.call.args.newWallet \notin {ZERO, ledger.aegisServerWallet}

\* C6: when the payout transfer of withdrawFinancing fails, the invoice is not
\* used, has no record, availableLiquidity and totalFinanced are what they
\* were, and the same call submitted again passes every check and reaches its
\* payout transfer again; whenever the checks of a call hold, only the payout
\* transfer can make it fail.
C6_FailedPayoutNotConsumed ==
    /\ (Finishes("withdrawFinancing") /\ tx.err = PayoutTransferFailed) =>
         LET i == tx.call.args.invoiceId
             again == Run(ledger, tx.call, now)
         IN /\ ~ledger.usedInvoices[i]
            /\ ledger.financingRecords[i] = NoRecord
            /\ ledger.availableLiquidity = tx.pre.availableLiquidity
            /\ ledger.totalFinanced = tx.pre.totalFinanced
            /\ hist.financed[i] = 0
            /\ again.err = OK
            /\ again.st.usedInvoices[i]
            /\ again.xfers =
                   <<Transfer(tx.call.sender, tx.call.args.payoutAmount, PayoutTransferFailed)>>
    /\ (Finishes("withdrawFinancing") /\ ChecksHold(tx.pre, tx.call, now))
           => tx.err \in {OK, PayoutTransferFailed}

\* the payout of an authorization fails although every check passed and the
\* pool holds the funds
C6_Witness ==
    /\ Finishes("withdrawFinancing")
    /\ tx.err = PayoutTransferFailed
    /\ ChecksHold(ledger, tx.call, now)
    /\ ledger.balance >= tx.call.args.payoutAmount

\* C7: a call of deposit, withdraw, withdrawFinancing or repay made by the
\* recipient of the transfer of a withdraw, withdrawFinancing or repay in
\* progress fails with ReentrancyGuardReentrantCall and changes nothing.
C7_ReentrancyBlocked ==
    (tx.pc = "call" /\ tx.call.op \in {"withdraw", "withdrawFinancing", "repay"}
       /\ tx.inner.call.op \in Guarded)
        => /\ tx.inner.call.sender = Head(tx.pending).to
           /\ tx.inner.err = ReentrancyBlocked
           /\ ledger = tx.inner.pre

\* the payer of a repayment, while receiving its refund, submits an
\* authorization that the pool would honour outside the repayment
C7_Witness ==
    /\ tx.pc = "call" /\ tx.call.op = "repay"
    /\ tx.inner.call.op = "withdrawFinancing"
    /\ tx.inner.err = ReentrancyBlocked
    /\ Run(nonReentrantAfter(ledger), tx.inner.call, now).err = OK

\* the storage but for the guard flag and the balance
Written(st) == [st EXCEPT !.status = NOT_ENTERED, !.balance = 0]

\* the storage holds the final state of the call in progress
FinalStateHeld ==
    LET c == tx.call
        pre == tx.pre
    IN CASE c.op = "withdraw" ->
              /\ ledger.lpDeposits[c.sender] = pre.lpDeposits[c.sender] - c.args.amount
              /\ ledger.totalPoolSize = pre.totalPoolSize - c.args.amount
              /\ ledger.availableLiquidity = pre.availableLiquidity - c.args.amount
         [] c.op = "withdrawFinancing" ->
              /\ ledger.usedInvoices[c.args.invoiceId]
              /\ ledger.availableLiquidity = pre.availableLiquidity - c.args.payoutAmount
              /\ ledger.totalFinanced = pre.totalFinanced + c.args.payoutAmount
              /\ ledger.financingRecords[c.args.invoiceId] =
                     [invoiceId |-> c.args.invoiceId, supplier |-> c.sender,
                      payoutAmount |-> c.args.payoutAmount,
                      repaymentAmount |-> c.args.repaymentAmount,
                      dueDate |-> c.args.dueDate, timestamp |-> now, repaid |-> FALSE]
         [] c.op = "repay" ->
              LET rec == pre.financingRecords[c.args.invoiceId]
                  lpInterest == ledger.totalPoolSize - pre.totalPoolSize
              IN /\ ledger.financingRecords[c.args.invoiceId] = [rec EXCEPT !.repaid = TRUE]
                 /\ lpInterest >= 0
                 /\ ledger.availableLiquidity =
                        pre.availableLiquidity + rec.payoutAmount + lpInterest
                 /\ ledger.totalInterestEarned > pre.totalInterestEarned
         [] OTHER -> FALSE

\* C8: when a transfer of withdraw, withdrawFinancing or repay passes control
\* to its recipient the storage already holds the final state of the call,
\* and the call writes nothing but the guard flag after a transfer returns.
C8_WritesBeforeTransfer ==
    /\ []((tx.pc = "call" /\ tx.nInner = 0) => FinalStateHeld)
    /\ [][(tx.pc = "call" /\ tx'.pending # tx.pending /\ tx'.err = OK)
             => Written(ledger') = Written(ledger)]_vars

\* control is with the recipient of an LP withdrawal whose position is debited
C8_Witness ==
    /\ tx.pc = "call" /\ tx.call.op = "withdraw" /\ tx.nInner = 0
    /\ tx.pre.lpDeposits[tx.call.sender] = tx.call.args.amount
    /\ ledger.lpDeposits[tx.call.sender] = 0

\* the original C9: an authorization that would be honoured as signed, submitted
\* with the caller or one of the six other fields altered, fails with
\* "Invalid signature" and changes nothing
C9_AlteredIsInvalidSignature ==
    (Finishes("withdrawFinancing") /\ ~AsSigned(tx.call)
       /\ tx.call.args.signature.signer = tx.pre.aegisServerWallet
       /\ ~tx.pre.usedInvoices[tx.call.args.signature.digest.struct.invoiceId]
       /\ now <= tx.call.args.signature.digest.struct.deadline
       /\ tx.call.args.signature.digest.struct.payoutAmount <= tx.pre.availableLiquidity)
        => (tx.err = InvalidSignature /\ ledger = tx.pre)

\* C9 (amended): a withdrawFinancing whose caller or one of whose six other
\* fields differs from the signed tuple is always rejected and changes nothing;
\* it is rejected with "Invalid signature" when the submitted values pass the
\* checks made before the signature check, and with the error of the first
\* of those checks that fails otherwise.
C9_AlteredIsRejected ==
    (Finishes("withdrawFinancing") /\ ~AsSigned(tx.call))
        => /\ tx.err # OK
           /\ ledger = tx.pre
           /\ EarlierChecksPass(tx.pre, tx.call, now) => tx.err = InvalidSignature
           /\ ~EarlierChecksPass(tx.pre, tx.call, now) =>
                  tx.err \in {InvoiceAlreadyFinanced, SignatureExpired,
                              InsufficientLiquidity, InvalidTerms, InvalidDueDate}

\* an authorization of the authorizer, valid in every respect, is submitted
\* with another nonce
C9_Witness ==
    /\ Finishes("withdrawFinancing")
    /\ tx.err = InvalidSignature
    /\ tx.call.args.signature.signer = ledger.aegisServerWallet
    /\ tx.call.args.nonce # tx.call.args.signature.digest.struct.nonce
    /\ ChecksHold(ledger, [tx.call EXCEPT !.args.nonce =
                                  tx.call.args.signature.digest.struct.nonce], now)

\* C10: withdrawFinancing for an unused invoice fails with "Signature expired"
\* whenever block.timestamp > deadline, and changes nothing; when
\* block.timestamp <= deadline it never fails with that error.
C10_Expiry ==
    (Finishes("withdrawFinancing") /\ ~tx.pre.usedInvoices[tx.call.args.invoiceId])
        => /\ now > tx.call.args.deadline => (tx.err = SignatureExpired /\ ledger = tx.pre)
           /\ now <= tx.call.args.deadline => tx.err # SignatureExpired

\* an authorization is honoured at the very second of its deadline
C10_Witness ==
    /\ Succeeds("withdrawFinancing")
    /\ now = tx.call.args.deadline

\* an authorization valid but for its deadline is turned down
C10_WitnessExpired ==
    /\ Finishes("withdrawFinancing")
    /\ tx.err = SignatureExpired
    /\ now = tx.call.args.deadline + 1
    /\ ChecksHold(ledger, tx.call, tx.call.args.deadline)

\* C11: withdrawFinancing for an unused invoice with an unexpired deadline
\* fails with "Insufficient pool liquidity" and changes nothing whenever
\* payoutAmount > availableLiquidity, and never fails with that error when
\* payoutAmount <= availableLiquidity; a financing leaves availableLiquidity
\* at what it was less the payout (until the recipient of the payout calls
\* back), and availableLiquidity is never below 0.
C11_LiquidityCheck ==
    /\ (Finishes("withdrawFinancing") /\ ~tx.pre.usedInvoices[tx.call.args.invoiceId]
          /\ now <= tx.call.args.deadline)
           => /\ tx.call.args.payoutAmount > tx.pre.availableLiquidity
                   => (tx.err = InsufficientLiquidity /\ ledger = tx.pre)
              /\ tx.call.args.payoutAmount <= tx.pre.availableLiquidity
                   => tx.err # InsufficientLiquidity
    /\ (tx.pc \in {"call", "done"} /\ tx.call.op = "withdrawFinancing" /\ tx.err = OK)
           => /\ tx.call.args.payoutAmount <= tx.pre.availableLiquidity
              /\ tx.nInner = 0 =>
                     ledger.availableLiquidity =
                         tx.pre.availableLiquidity - tx.call.args.payoutAmount
    /\ ledger.availableLiquidity >= 0

\* a financing takes all the liquidity there is: availableLiquidity is 0
C11_Witness ==
    /\ Succeeds("withdrawFinancing")
    /\ tx.call.args.payoutAmount = tx.pre.availableLiquidity
    /\ tx.pre.availableLiquidity > 0
    /\ ledger.availableLiquidity = 0

\* a financing asks for more than the liquidity there is, and for nothing else
\* that would be refused
C11_WitnessRefused ==
    /\ Finishes("withdrawFinancing")
    /\ tx.err = InsufficientLiquidity
    /\ tx.call.args.payoutAmount > ledger.availableLiquidity
    /\ ledger.availableLiquidity > 0
    /\ AsSigned(tx.call)
    /\ tx.call.args.signature.signer = ledger.aegisServerWallet

\* the storage totals a call changed: availableLiquidity, totalPoolSize,
\* totalInterestEarned, the values after less the values before
Delta(pre, st) ==
    [availableLiquidity |-> st.availableLiquidity - pre.availableLiquidity,
     totalPoolSize |-> st.totalPoolSize - pre.totalPoolSize,
     totalInterestEarned |-> st.totalInterestEarned - pre.totalInterestEarned]

\* C12: a repay that succeeds on an invoice with payout P and repayment R at
\* fee rate r, with totalInterest = (R - P) + lateFee, protocolFee =
\* floor(totalInterest * r / 10000) and lpInterest = totalInterest -
\* protocolFee, adds P + lpInterest to availableLiquidity, lpInterest to
\* totalPoolSize and totalInterest to totalInterestEarned, and nothing else
\* to them; P = 98000, R = 100000 on time at r = 1000 adds 99800, 1800, 2000.
C12_RepayAccounting ==
    (tx.pc \in {"call", "done"} /\ tx.call.op = "repay" /\ tx.err = OK /\ tx.nInner = 0) =>
        LET rec == tx.pre.financingRecords[tx.call.args.invoiceId]
            P == rec.payoutAmount
            R == rec.repaymentAmount
            r == tx.pre.protocolFeeRate
            lateFee == lateFeeOf(rec, now)
            totalInterest == (R - P) + lateFee
            protocolFee == CHOOSE f \in 0..totalInterest :
                               f * 10000 <= totalInterest * r
                               /\ totalInterest * r < (f + 1) * 10000
            lpInterest == totalInterest - protocolFee
        IN /\ Delta(tx.pre, ledger) =
                  [availableLiquidity |-> P + lpInterest,
                   totalPoolSize |-> lpInterest,
                   totalInterestEarned |-> totalInterest]
           /\ ledger.totalFinanced = tx.pre.totalFinanced
           /\ ledger.lpDeposits = tx.pre.lpDeposits
           /\ (P = 98000 /\ R = 100000 /\ now <= rec.dueDate /\ r = 1000) =>
                  /\ totalInterest = 2000 /\ protocolFee = 200 /\ lpInterest = 1800
                  /\ Delta(tx.pre, ledger) =
                         [availableLiquidity |-> 99800, totalPoolSize |-> 1800,
                          totalInterestEarned |-> 2000]

\* the invoice of 98000 / 100000 is repaid on time at the default fee rate
C12_Witness ==
    /\ Succeeds("repay")
    /\ tx.nInner = 0
    /\ tx.pre.financingRecords[tx.call.args.invoiceId].payoutAmount = 98000
    /\ tx.pre.financingRecords[tx.call.args.invoiceId].repaymentAmount = 100000
    /\ now <= tx.pre.financingRecords[tx.call.args.invoiceId].dueDate
    /\ tx.pre.protocolFeeRate = DEFAULT_FEE_RATE
    /\ ledger.availableLiquidity = tx.pre.availableLiquidity + 99800
    /\ ledger.totalPoolSize = tx.pre.totalPoolSize + 1800

\* a repay is in progress or has ended, without error and without a call made
\* by the recipient of one of its transfers
Repaying ==
    tx.pc \in {"call", "done"} /\ tx.call.op = "repay" /\ tx.err = OK /\ tx.nInner = 0

\* the late fee a repay charged: the interest it booked less the base interest
ChargedLateFee ==
    LET rec == tx.pre.financingRecords[tx.call.args.invoiceId] IN
    Delta(tx.pre, ledger).totalInterestEarned - (rec.repaymentAmount - rec.payoutAmount)

\* C13 (under LateSpec): the late fee repay charges is 0 when block.timestamp
\* <= dueDate and otherwise the smaller of repaymentAmount * floor((block.
\* timestamp - dueDate) / 86400) * 100 / 10000 and repaymentAmount * 3000 /
\* 10000 (integer divisions); it is 0 up to 86399 seconds after dueDate, never
\* above 30% of repaymentAmount, and never smaller than at an earlier time;
\* 100000 repaid 10 days late is charged 10000, with totalInterest 12000,
\* protocolFee 1200 and lpInterest 10800 at the default rate.
C13_LateFee ==
    /\ Repaying =>
         LET rec == tx.pre.financingRecords[tx.call.args.invoiceId]
             R == rec.repaymentAmount
             late == now - rec.dueDate
             days == late \div 86400
             perDay == (R * days * 100) \div 10000
             cap == (R * 3000) \div 10000
         IN /\ now <= rec.dueDate => ChargedLateFee = 0
            /\ now > rec.dueDate =>
                   ChargedLateFee = IF perDay < cap THEN perDay ELSE cap
            /\ late <= 86399 => ChargedLateFee = 0
            /\ ChargedLateFee >= 0
            /\ ChargedLateFee * 10000 <= R * 3000
            /\ (R = 100000 /\ rec.payoutAmount = 98000 /\ days = 10
                  /\ tx.pre.protocolFeeRate = DEFAULT_FEE_RATE) =>
                   /\ ChargedLateFee = 10000
                   /\ Delta(tx.pre, ledger) =
                          [availableLiquidity |-> 98000 + 10800, totalPoolSize |-> 10800,
                           totalInterestEarned |-> 12000]
    /\ \A i \in Invoices : \A k \in 0..MaxDaysLate, a \in 0..2 :
           k * DAY + a <= now =>
               lateFeeOf(ledger.financingRecords[i], k * DAY + a)
                   <= lateFeeOf(ledger.financingRecords[i], now)

\* the invoice of 100000 is repaid 10 days and a second late
C13_Witness ==
    /\ Succeeds("repay")
    /\ tx.pre.financingRecords[tx.call.args.invoiceId].repaymentAmount = 100000
    /\ now = tx.pre.financingRecords[tx.call.args.invoiceId].dueDate + 10 * DAY + 1
    /\ ChargedLateFee = 10000

\* the invoice of 100000 is repaid 31 days late and is charged the cap
C13_WitnessCapped ==
    /\ Succeeds("repay")
    /\ tx.pre.financingRecords[tx.call.args.invoiceId].repaymentAmount = 100000
    /\ now >= tx.pre.financingRecords[tx.call.args.invoiceId].dueDate + 31 * DAY
    /\ ChargedLateFee = 30000

\* the amount owed on a record at time t: repaymentAmount and the late fee
OwedAt(rec, t) ==
    LET days == (t - rec.dueDate) \div 86400
        perDay == (rec.repaymentAmount * days * 100) \div 10000
        cap == (rec.repaymentAmount * 3000) \div 10000
    IN rec.repaymentAmount
         + (IF t <= rec.dueDate THEN 0 ELSE IF perDay < cap THEN perDay ELSE cap)

\* the original C14 (under LateSpec): repay of a Financed invoice with less than
\* repaymentAmount + lateFee fails with "Insufficient repayment amount" and
\* changes nothing; a payment of exactly repaymentAmount passes that check at
\* any time up to dueDate and fails it once the invoice is a full day late
C14_ExactPaymentRejectedOnceLate ==
    (Finishes("repay") /\ InvoiceState(tx.pre, tx.call.args.invoiceId) = "Financed") =>
        LET rec == tx.pre.financingRecords[tx.call.args.invoiceId] IN
        /\ tx.call.value < OwedAt(rec, now)
               => (tx.err = InsufficientRepayment /\ ledger = tx.pre)
        /\ (tx.call.value = rec.repaymentAmount /\ now <= rec.dueDate)
               => tx.err # InsufficientRepayment
        /\ (tx.call.value = rec.repaymentAmount /\ now - rec.dueDate >= 86400)
               => (tx.err = InsufficientRepayment /\ ledger = tx.pre)

\* C14 (amended, under LateSpec): repay of a Financed invoice fails with
\* "Insufficient repayment amount" and changes nothing exactly when the value
\* sent is less than repaymentAmount + lateFee at the time of the call; a
\* payment of exactly repaymentAmount passes that check at any time up to
\* dueDate, and fails it exactly when the late fee is not 0, that is when
\* repaymentAmount * (full days late) >= 100 and repaymentAmount >= 4.
C14_InsufficientRepayment ==
    (Finishes("repay") /\ InvoiceState(tx.pre, tx.call.args.invoiceId) = "Financed") =>
        LET rec == tx.pre.financingRecords[tx.call.args.invoiceId]
            days == (now - rec.dueDate) \div 86400
        IN
        /\ tx.call.value < OwedAt(rec, now)
               => (tx.err = InsufficientRepayment /\ ledger = tx.pre)
        /\ tx.call.value >= OwedAt(rec, now) => tx.err # InsufficientRepayment
        /\ (tx.call.value = rec.repaymentAmount /\ now <= rec.dueDate)
               => tx.err # InsufficientRepayment
        /\ (tx.call.value = rec.repaymentAmount /\ now > rec.dueDate
              /\ rec.repaymentAmount * days >= 100 /\ rec.repaymentAmount >= 4)
               => (tx.err = InsufficientRepayment /\ ledger = tx.pre)
        /\ (tx.call.value = rec.repaymentAmount /\ now > rec.dueDate
              /\ (rec.repaymentAmount * days < 100 \/ rec.repaymentAmount < 4))
               => tx.err # InsufficientRepayment

\* the invoice of 100000 is a day late and exactly 100000 is sent
C14_Witness ==
    /\ Finishes("repay")
    /\ tx.err = InsufficientRepayment
    /\ InvoiceState(ledger, tx.call.args.invoiceId) = "Financed"
    /\ tx.call.value = ledger.financingRecords[tx.call.args.invoiceId].repaymentAmount
    /\ now = ledger.financingRecords[tx.call.args.invoiceId].dueDate + DAY

\* the invoice of 50 is a day late and is repaid with exactly 50
C14_WitnessSmall ==
    /\ Succeeds("repay")
    /\ tx.call.value = tx.pre.financingRecords[tx.call.args.invoiceId].repaymentAmount
    /\ now = tx.pre.financingRecords[tx.call.args.invoiceId].dueDate + DAY

\* the protocol fee of the repay in progress, from the storage it started on
RepayFee ==
    LET rec == tx.pre.financingRecords[tx.call.args.invoiceId] IN
    ((OwedAt(rec, now) - rec.payoutAmount) * tx.pre.protocolFeeRate) \div 10000

\* the part of the value sent with the repay in progress that is not owed
RepayExcess ==
    tx.call.value - OwedAt(tx.pre.financingRecords[tx.call.args.invoiceId], now)

\* the transfers the repay in progress has to make, in order
RepayTransfers ==
    (IF RepayFee > 0
     THEN <<Transfer(tx.pre.protocolFeeReceiver, RepayFee, FeeTransferFailed)>>
     ELSE <<>>)
    \o (IF RepayExcess > 0
        THEN <<Transfer(tx.call.sender, RepayExcess, RefundFailed)>>
        ELSE <<>>)

\* C15: repay sends protocolFee to protocolFeeReceiver only when it is > 0,
\* then refunds msg.value - requiredAmount to the caller when it is > 0; a
\* repay that passed its checks fails only on one of these transfers, and
\* then the storage is what it was before the call: the record is not repaid,
\* the totals are unchanged, the value sent is not in the balance, and a fee
\* already sent is back in it.
C15_RepayTransfers ==
    /\ (tx.pc = "call" /\ tx.call.op = "repay") =>
          /\ RepayTransfers # <<>>
          /\ tx.pending \in {RepayTransfers, Tail(RepayTransfers)}
          /\ \A k \in 1..Len(tx.pending) : tx.pending[k].amount > 0
    /\ (Succeeds("repay") /\ tx.nInner = 0) =>
          ledger.balance = tx.pre.balance + tx.call.value - RepayFee - RepayExcess
    /\ (Finishes("repay") /\ InvoiceState(tx.pre, tx.call.args.invoiceId) = "Financed"
          /\ RepayExcess >= 0) =>
          /\ tx.err \in {OK, FeeTransferFailed, RefundFailed}
          /\ tx.err = FeeTransferFailed => RepayFee > 0
          /\ tx.err = RefundFailed => RepayExcess > 0
          /\ tx.err # OK =>
                /\ ledger = tx.pre
                /\ ~ledger.financingRecords[tx.call.args.invoiceId].repaid
                /\ Delta(tx.pre, ledger) =
                       [availableLiquidity |-> 0, totalPoolSize |-> 0,
                        totalInterestEarned |-> 0]
                /\ ledger.balance = tx.pre.balance

\* the refund of a repay fails after its protocol fee was sent
C15_Witness ==
    /\ Finishes("repay")
    /\ tx.err = RefundFailed
    /\ RepayFee > 0
    /\ InvoiceState(ledger, tx.call.args.invoiceId) = "Financed"

\* a repay at fee rate 0 goes straight to its refund
C15_WitnessNoFee ==
    /\ tx.pc = "call" /\ tx.call.op = "repay"
    /\ RepayFee = 0
    /\ Head(tx.pending).msg = RefundFailed
    /\ Len(tx.pending) = 1

\* the withdrawal of what the deposit that has just ended brought in
WithdrawBack == Call("withdraw", tx.call.sender, 0, [amount |-> tx.call.value])

\* C16 (under LpSpec): after a deposit of X > 0 by an account, withdraw(X) by
\* that account passes its checks, sends X to the account, and when that
\* transfer succeeds leaves totalPoolSize, availableLiquidity and the
\* account's position (and the rest of the storage) as they were before the
\* deposit, whatever the pool was before.
C16_RoundTrip ==
    Succeeds("deposit") =>
        LET r == Run(ledger, WithdrawBack, now)
            sent == Advance(WithdrawBack, ledger, r.st, r.xfers, 0)
            back == Advance(WithdrawBack, ledger, sent.ledger, Tail(r.xfers), 0)
        IN /\ tx.call.value > 0
           /\ r.err = OK
           /\ r.xfers = <<Transfer(tx.call.sender, tx.call.value, TransferFailed)>>
           /\ sent.tx.pc = "call"
           /\ back.tx.pc = "done" /\ back.tx.err = OK
           /\ back.ledger.totalPoolSize = tx.pre.totalPoolSize
           /\ back.ledger.availableLiquidity = tx.pre.availableLiquidity
           /\ back.ledger.lpDeposits[tx.call.sender] = tx.pre.lpDeposits[tx.call.sender]
           /\ back.ledger = tx.pre

\* an account that has a position deposits into a pool whose liquidity is
\* partly out on an invoice
C16_Witness ==
    /\ Succeeds("deposit")
    /\ tx.pre.availableLiquidity < tx.pre.totalPoolSize
    /\ tx.pre.lpDeposits[tx.call.sender] > 0
    /\ ledger.lpDeposits[tx.call.sender] = tx.pre.lpDeposits[tx.call.sender] + tx.call.value

\* an account without a position takes out of a pool that earned interest what
\* it has just put in
C16_WitnessWithdrawn ==
    /\ Succeeds("withdraw")
    /\ ledger.lpDeposits[tx.call.sender] = 0
    /\ ledger.totalInterestEarned > 0
    /\ ledger.totalPoolSize > 100000

\* the sum of the LP positions
TotalPositions(st) ==
    LET RECURSIVE Sum(_)
        Sum(S) == IF S = {} THEN 0
                  ELSE LET a == CHOOSE x \in S : TRUE IN st.lpDeposits[a] + Sum(S \ {a})
    IN Sum(Addr)

\* the LP interest of the repay whose transfers are being made
InFlightInterest ==
    IF tx.pc = "call" /\ tx.call.op = "repay"
    THEN LET rec == tx.pre.financingRecords[tx.call.args.invoiceId] IN
         (OwedAt(rec, now) - rec.payoutAmount) - RepayFee
    ELSE 0

\* C17: in every reachable state the sum of the LP positions is totalPoolSize
\* less the LP interest credited by the repayments so far (that of a
\* repayment in progress included); it is totalPoolSize as long as no LP
\* interest was credited, and it never exceeds totalPoolSize.
C17_PositionsAndPoolSize ==
    LET credited == hist.lpInterest + InFlightInterest IN
    /\ TotalPositions(ledger) = ledger.totalPoolSize - credited
    /\ credited >= 0
    /\ credited = 0 => TotalPositions(ledger) = ledger.totalPoolSize
    /\ TotalPositions(ledger) <= ledger.totalPoolSize

\* an LP takes its deposit out of a pool that was credited interest: the
\* interest stays in totalPoolSize and is in no position
C17_Witness ==
    /\ Succeeds("withdraw")
    /\ hist.lpInterest > 0
    /\ TotalPositions(ledger) = 0
    /\ ledger.totalPoolSize = hist.lpInterest

AdminFunctions == {"updateAegisWallet", "updateProtocolFeeRate", "updateProtocolFeeReceiver"}

\* the settings the admin functions write
Settings(st) ==
    [aegisServerWallet |-> st.aegisServerWallet, roles |-> st.roles,
     protocolFeeRate |-> st.protocolFeeRate, protocolFeeReceiver |-> st.protocolFeeReceiver]

\* C18: updateAegisWallet, updateProtocolFeeRate and updateProtocolFeeReceiver
\* called by an account that does not hold ADMIN_ROLE fail with
\* AccessControlUnauthorizedAccount, whatever their argument, and leave
\* aegisServerWallet, the roles, protocolFeeRate and protocolFeeReceiver (and
\* the rest of the storage) as they were; so does such a call made from
\* inside a transfer.
C18_NonAdminRejected ==
    /\ (tx.pc = "done" /\ tx.call.op \in AdminFunctions
          /\ ~hasRole(tx.pre, ADMIN_ROLE, tx.call.sender))
           => /\ tx.err = Unauthorized
              /\ Settings(ledger) = Settings(tx.pre)
              /\ ledger = tx.pre
    /\ (tx.pc = "call" /\ tx.inner.call.op \in AdminFunctions
          /\ ~hasRole(tx.inner.pre, ADMIN_ROLE, tx.inner.call.sender))
           => /\ tx.inner.err = Unauthorized
              /\ Settings(ledger) = Settings(tx.inner.pre)
              /\ ledger = tx.inner.pre

\* an account that does not hold the admin role asks for a fee rate that an
\* admin could set
C18_Witness ==
    /\ Finishes("updateProtocolFeeRate")
    /\ tx.err = Unauthorized
    /\ tx.call.args.newRate <= MAX_FEE_RATE
    /\ tx.call.args.newRate # ledger.protocolFeeRate
    /\ ~hasRole(ledger, ADMIN_ROLE, tx.call.sender)

\* an account that is not an admin asks for the null authorizer: the role is
\* checked before the argument
C18_WitnessNull ==
    /\ Finishes("updateAegisWallet")
    /\ tx.err = Unauthorized
    /\ tx.call.args.newWallet = ZERO

\* C19: updateAegisWallet called by an account that holds ADMIN_ROLE succeeds
\* for every newWallet but the null address, and then aegisServerWallet is
\* newWallet, the former wallet has lost AEGIS_ROLE (unless it is newWallet)
\* and newWallet holds it; with the null address it fails with "Invalid
\* wallet address" and changes nothing.
C19_AdminRotates ==
    (Finishes("updateAegisWallet") /\ hasRole(tx.pre, ADMIN_ROLE, tx.call.sender)) =>
        LET old == tx.pre.aegisServerWallet
            new == tx.call.args.newWallet
        IN /\ new # ZERO =>
                 /\ tx.err = OK
                 /\ ledger.aegisServerWallet = new
                 /\ hasRole(ledger, AEGIS_ROLE, new)
                 /\ old # new => ~hasRole(ledger, AEGIS_ROLE, old)
           /\ new = ZERO => (tx.err = InvalidWallet /\ ledger = tx.pre)

\* what holds of updateAegisWallet: the same, for a caller that holds both
\* ADMIN_ROLE and DEFAULT_ADMIN_ROLE; a caller that holds ADMIN_ROLE without
\* DEFAULT_ADMIN_ROLE fails with AccessControlUnauthorizedAccount on a
\* newWallet that is not null, and nothing changes
C19_DefaultAdminRotates ==
    (Finishes("updateAegisWallet") /\ hasRole(tx.pre, ADMIN_ROLE, tx.call.sender)) =>
        LET old == tx.pre.aegisServerWallet
            new == tx.call.args.newWallet
        IN /\ (new # ZERO /\ hasRole(tx.pre, DEFAULT_ADMIN_ROLE, tx.call.sender)) =>
                 /\ tx.err = OK
                 /\ ledger.aegisServerWallet = new
                 /\ hasRole(ledger, AEGIS_ROLE, new)
                 /\ old # new => ~hasRole(ledger, AEGIS_ROLE, old)
           /\ (new # ZERO /\ ~hasRole(tx.pre, DEFAULT_ADMIN_ROLE, tx.call.sender)) =>
                 (tx.err = Unauthorized /\ ledger = tx.pre)
           /\ new = ZERO => (tx.err = InvalidWallet /\ ledger = tx.pre)

\* a grantRole or revokeRole on AEGIS_ROLE has succeeded
RoleChangedDirectly ==
    /\ tx.pc = "done" /\ tx.err = OK
    /\ tx.call.op \in {"grantRole", "revokeRole"}
    /\ tx.call.args.role = AEGIS_ROLE

\* the original C20: in every reachable state exactly one identity holds
\* AEGIS_ROLE and it is aegisServerWallet, the identity the signatures are
\* checked against; after a successful updateAegisWallet(n) it is n
C20_OneAuthorizer ==
    /\ ledger.roles[AEGIS_ROLE] = {ledger.aegisServerWallet}
    /\ Succeeds("updateAegisWallet") => ledger.aegisServerWallet = tx.call.args.newWallet

\* C20 (amended): in every reachable state the signatures of
\* withdrawFinancing are checked against one identity, aegisServerWallet,
\* which is never null; after a successful updateAegisWallet(n) it is n, also
\* when n is the former wallet, n holds AEGIS_ROLE and the former wallet, when
\* it is not n, does not; every transaction but a grantRole or revokeRole on
\* AEGIS_ROLE leaves aegisServerWallet the only holder of AEGIS_ROLE if it was.
C20_AuthorizerIdentity ==
    /\ ledger.aegisServerWallet \in Signers
    /\ (tx.pc \in {"call", "done"} /\ tx.call.op = "withdrawFinancing" /\ tx.err = OK)
           => recover(_hashTypedDataV4(ThisDomain,
                         structHash(tx.call.args.invoiceId, tx.call.sender,
                                    tx.call.args.payoutAmount, tx.call.args.repaymentAmount,
                                    tx.call.args.dueDate, tx.call.args.nonce,
                                    tx.call.args.deadline)),
                      tx.call.args.signature) = tx.pre.aegisServerWallet
    /\ Succeeds("updateAegisWallet") =>
          LET n == tx.call.args.newWallet IN
          /\ ledger.aegisServerWallet = n
          /\ ledger.roles[AEGIS_ROLE] =
                 (tx.pre.roles[AEGIS_ROLE] \ {tx.pre.aegisServerWallet}) \cup {n}
          /\ [ledger EXCEPT !.aegisServerWallet = 0, !.roles = 0]
                 = [tx.pre EXCEPT !.aegisServerWallet = 0, !.roles = 0]
    /\ (tx.pc = "done" /\ ~RoleChangedDirectly
          /\ tx.pre.roles[AEGIS_ROLE] = {tx.pre.aegisServerWallet})
           => ledger.roles[AEGIS_ROLE] = {ledger.aegisServerWallet}

\* the authorizer is rotated to the identity it already is
C20_Witness ==
    /\ Succeeds("updateAegisWallet")
    /\ tx.call.args.newWallet = tx.pre.aegisServerWallet
    /\ ledger.roles[AEGIS_ROLE] = {tx.call.args.newWallet}

\* the authorizer is rotated while a second identity holds AEGIS_ROLE
C20_WitnessTwoHolders ==
    /\ Succeeds("updateAegisWallet")
    /\ Cardinality(tx.pre.roles[AEGIS_ROLE]) = 2
    /\ ledger.roles[AEGIS_ROLE] = {ledger.aegisServerWallet}

\* the protocol fee a repay that has ended sent out: what came in with the
\* call, less the refund, less what the balance kept
PaidFee ==
    tx.pre.balance + tx.call.value - (IF RepayExcess > 0 THEN RepayExcess ELSE 0)
        - ledger.balance

\* C21: protocolFeeRate <= 5000 in every reachable state (1000 after the
\* deployment); updateProtocolFeeRate with a rate above 5000 is rejected, with
\* "Fee rate cannot exceed 50%" when the caller is an admin, and leaves the
\* rate (and the rest of the storage) as it was; for every repayment the
\* protocol fee sent out is at most the LP interest added to totalPoolSize,
\* and the two add up to the interest added to totalInterestEarned.
C21_FeeRateCap ==
    /\ ledger.protocolFeeRate <= 5000
    /\ ledger.protocolFeeRate >= 0
    /\ \A seed \in Seeds : Constructor("aegis1", seed).protocolFeeRate = 1000
    /\ (tx = Idle /\ hist = NoHistory /\ ConfigChanges(ledger) = 0)
           => ledger.protocolFeeRate = 1000
    /\ (Finishes("updateProtocolFeeRate") /\ tx.call.args.newRate > 5000)
           => /\ tx.err # OK
              /\ ledger.protocolFeeRate = tx.pre.protocolFeeRate
              /\ ledger = tx.pre
              /\ hasRole(tx.pre, ADMIN_ROLE, tx.call.sender) => tx.err = FeeRateTooHigh
    /\ (Succeeds("updateProtocolFeeRate"))
           => /\ tx.call.args.newRate <= 5000
              /\ ledger.protocolFeeRate = tx.call.args.newRate
    /\ (Succeeds("repay") /\ tx.nInner = 0) =>
           LET totalInterest == Delta(tx.pre, ledger).totalInterestEarned
               lpInterest == Delta(tx.pre, ledger).totalPoolSize
           IN /\ PaidFee >= 0
              /\ PaidFee <= lpInterest
              /\ PaidFee + lpInterest = totalInterest

\* an invoice is repaid at the highest fee rate: the interest of 2000 is split
\* in two halves
C21_Witness ==
    /\ Succeeds("repay") /\ tx.nInner = 0
    /\ tx.pre.protocolFeeRate = MAX_FEE_RATE
    /\ PaidFee = 1000
    /\ Delta(tx.pre, ledger).totalPoolSize = 1000

\* an admin asks for a rate of 5001
C21_WitnessTooHigh ==
    /\ Finishes("updateProtocolFeeRate")
    /\ tx.err = FeeRateTooHigh
    /\ tx.call.args.newRate = MAX_FEE_RATE + 1
    /\ ledger.protocolFeeRate = DEFAULT_FEE_RATE

\* the original C22 (under AdminSpec): an authorization signed for another
\* deployment, whose domain (name, version, chain id, contract address) differs
\* from this pool's in at least one component, is rejected by this pool with
\* "Invalid signature", even when its fields, the caller and aegisServerWallet
\* are the ones it was signed for
C22_ForeignIsInvalidSignature ==
    (Finishes("withdrawFinancing")
       /\ tx.call.args.signature.digest.domain # ThisDomain
       /\ AsSigned(tx.call)
       /\ tx.call.args.signature.signer = tx.pre.aegisServerWallet)
        => (tx.err = InvalidSignature /\ ledger = tx.pre)

\* C22 (amended, under AdminSpec): an authorization signed for another
\* deployment, whose domain differs from this pool's in at least one
\* component, is always rejected by this pool and changes nothing, even when
\* its fields, the caller and aegisServerWallet are the ones it was signed
\* for: with "Invalid signature" when the call passes the checks made before
\* the signature check, and with the error of the first of those checks that
\* fails otherwise; the same authorization made for this pool's domain is
\* honoured.
C22_DomainSeparation ==
    /\ (Finishes("withdrawFinancing")
          /\ tx.call.args.signature.digest.domain # ThisDomain) =>
           /\ tx.err # OK
           /\ ledger = tx.pre
           /\ (AsSigned(tx.call) /\ EarlierChecksPass(tx.pre, tx.call, now))
                  => tx.err = InvalidSignature
           /\ (AsSigned(tx.call) /\ EarlierChecksPass(tx.pre, tx.call, now)
                 /\ tx.call.args.signature.signer = tx.pre.aegisServerWallet) =>
                  LET own == [tx.call EXCEPT !.args.signature.digest.domain = ThisDomain]
                  IN Run(tx.pre, own, now).err = OK
    /\ (tx.pc \in {"call", "done"} /\ tx.call.op = "withdrawFinancing" /\ tx.err = OK)
           => tx.call.args.signature.digest.domain = ThisDomain

\* the authorizer's signature for the pool of another chain, on terms this
\* pool would honour, is turned down
C22_Witness ==
    /\ Finishes("withdrawFinancing")
    /\ tx.err = InvalidSignature
    /\ tx.call.args.signature.signer = ledger.aegisServerWallet
    /\ tx.call.args.signature.digest.domain = [ThisDomain EXCEPT !.chainId = "421614"]
    /\ AsSigned(tx.call)
    /\ EarlierChecksPass(ledger, tx.call, now)

\* the same, for a deployment that differs in its name only
C22_WitnessName ==
    /\ Finishes("withdrawFinancing")
    /\ tx.err = InvalidSignature
    /\ tx.call.args.signature.signer = ledger.aegisServerWallet
    /\ tx.call.args.signature.digest.domain = [ThisDomain EXCEPT !.name = "ArcPool2"]
    /\ EarlierChecksPass(ledger, tx.call, now)

\* the second of the clock at which the backend computed the deadline of the
\* signature data it issued last
SignedAt == backend.request[1].clock[2] \div 1000

\* C23 (amended, under BackendSpec): the signature data
\* generateFinancingSignature returns at time t (in seconds) carries deadline
\* = t + 3600; submitted to withdrawFinancing at a time <= t + 3600 it is never
\* rejected with "Signature expired", and at a later time it is always
\* rejected and changes nothing: with "Signature expired" when the invoice
\* is not yet used, and with "Invoice already financed" when it is.
C23_BackendDeadline ==
    /\ backend.issued # <<>> =>
           /\ backend.issued[1].deadline = SignedAt + 3600
           /\ backend.issued[1].signature.digest.struct.deadline = SignedAt + 3600
    /\ (Finishes("withdrawFinancing") /\ backend.issued # <<>>
          /\ tx.call = IssuedSubmission) =>
           LET used == tx.pre.usedInvoices[tx.call.args.invoiceId] IN
           /\ now <= SignedAt + 3600 => tx.err # SignatureExpired
           /\ now > SignedAt + 3600 =>
                 /\ tx.err # OK
                 /\ ledger = tx.pre
                 /\ ~used => tx.err = SignatureExpired
                 /\ used => tx.err = InvoiceAlreadyFinanced

\* the original C23 (under BackendSpec): the signature data carries deadline =
\* t + 3600; submitted at a time <= t + 3600 it is not rejected as expired, and
\* at any later time it is rejected with "Signature expired"
C23_LaterIsSignatureExpired ==
    /\ backend.issued # <<>> => backend.issued[1].deadline = SignedAt + 3600
    /\ (Finishes("withdrawFinancing") /\ backend.issued # <<>>
          /\ tx.call = IssuedSubmission) =>
           /\ now <= SignedAt + 3600 => tx.err # SignatureExpired
           /\ now > SignedAt + 3600 => tx.err = SignatureExpired

\* the pool honours a signature of the backend an hour after it was made
C23_Witness ==
    /\ Succeeds("withdrawFinancing")
    /\ tx.call = IssuedSubmission
    /\ now = SignedAt + 3600
    /\ backend.request[1].clock[2] % 1000 # 0

\* an hour and a second after it was made the signature is expired, and
\* nothing else is wrong with the call
C23_WitnessExpired ==
    /\ Finishes("withdrawFinancing")
    /\ tx.call = IssuedSubmission
    /\ tx.err = SignatureExpired
    /\ now = SignedAt + 3601
    /\ ChecksHold(ledger, tx.call, now - 1)

\* the backend has verified the signature data it issued, with the inputs it
\* signed, and its key is the one of AEGIS_SERVER_WALLET
VerifiedAsIssued ==
    /\ backend.verified # <<>>
    /\ backend.verified[1].payoutAmount = backend.request[1].q.payoutAmount
    /\ backend.config.SERVER_WALLET_PRIVATE_KEY = backend.config.AEGIS_SERVER_WALLET

\* C28 (under BackendSpec): the signature data generateFinancingSignature
\* returns for (invoiceId, supplier, payoutAmount, repaymentAmount,
\* daysUntilDue) is accepted by verifyFinancingSignature(invoiceId, supplier,
\* payoutAmount, signatureData), which returns true, for all inputs, whenever
\* the address of the configured key is AEGIS_SERVER_WALLET.
C28_VerifyAcceptsIssued == VerifiedAsIssued => backend.verified[1].result = TRUE

\* what holds of verifyFinancingSignature (under BackendSpec): it scales the
\* repayment amount by 10^6 where the signature was made over it scaled by
\* 10^18, so that it accepts the signature data issued for the same inputs
\* only when repaymentAmount is 0; it accepts none for another payout amount
\* or another AEGIS_SERVER_WALLET.
C28_VerifyRejectsRepayment ==
    /\ VerifiedAsIssued =>
           (backend.verified[1].result = TRUE
               <=> backend.request[1].q.repaymentAmount = 0)
    /\ (backend.verified # <<>> /\ backend.verified[1].result = TRUE) => VerifiedAsIssued

\* the backend turns down the signature it has just issued for a payout of 98
\* and a repayment of 100, which the pool honours
C28_Rejected ==
    /\ VerifiedAsIssued
    /\ backend.verified[1].result = FALSE
    /\ backend.request[1].q.payoutAmount = 98
    /\ backend.request[1].q.repaymentAmount = 100
    /\ Run(ledger, IssuedSubmission, now).err = OK

\* the pool totals and the LP positions
PoolAndPositions(st) ==
    [totalPoolSize |-> st.totalPoolSize, availableLiquidity |-> st.availableLiquidity,
     lpDeposits |-> st.lpDeposits]

\* the recipient of the transfer of a withdraw, withdrawFinancing or repay in
\* progress has made a call
CalledBack ==
    /\ tx.pc = "call"
    /\ tx.call.op \in {"withdraw", "withdrawFinancing", "repay"}
    /\ tx.inner.call.op # "none"

\* C24: between the start and the end of the external transfer of a withdraw,
\* withdrawFinancing or repay, no call made by the recipient, a plain value
\* transfer back to the pool included, changes totalPoolSize,
\* availableLiquidity or an LP position: the guard is checked at the entry of
\* every function that can change them.
C24_NoInterleaving ==
    CalledBack => PoolAndPositions(ledger) = PoolAndPositions(tx.inner.pre)

\* what holds: of the calls the recipient makes, only a plain value transfer
\* (receive) changes the totals and the positions; it is not guarded, and
\* credits the value to the recipient's position, to totalPoolSize and to
\* availableLiquidity while the outer call is in progress.
C24_OnlyReceiveInterleaves ==
    CalledBack =>
        IF tx.inner.call.op = "receive" /\ tx.inner.call.value > 0
        THEN /\ tx.inner.err = OK
             /\ ledger.status = ENTERED
             /\ ledger.totalPoolSize = tx.inner.pre.totalPoolSize + tx.inner.call.value
             /\ ledger.availableLiquidity =
                    tx.inner.pre.availableLiquidity + tx.inner.call.value
             /\ ledger.lpDeposits[tx.inner.call.sender] =
                    tx.inner.pre.lpDeposits[tx.inner.call.sender] + tx.inner.call.value
        ELSE PoolAndPositions(ledger) = PoolAndPositions(tx.inner.pre)

\* an LP that is being paid its withdrawal sends the value back to the pool
\* and is credited a new position before the withdrawal has ended
C24_Interleaved ==
    /\ CalledBack
    /\ tx.call.op = "withdraw"
    /\ tx.inner.call.op = "receive"
    /\ ledger.lpDeposits[tx.call.sender] = tx.call.args.amount
    /\ ledger.status = ENTERED

\* the first transfer the call c makes when run on storage st at time t
FirstTransfer(st, c, t) == Head(Run(st, c, t).xfers)

\* C25: between transactions the value the pool holds is availableLiquidity
\* (value enters by the constructor, deposit, receive and repay only): every
\* transaction, the deployment with a seed included, changes the balance and
\* availableLiquidity by the same amount, a repayment by the value sent less
\* the protocol fee and the refund; so a withdraw or a payout that passes its
\* checks is covered by the balance, and no value is held outside
\* availableLiquidity.
C25_BalanceIsLiquidity ==
    /\ tx.pc \in {"idle", "done"} => ledger.balance = ledger.availableLiquidity
    /\ \A seed \in Seeds :
           Constructor("aegis1", seed).balance = seed
           /\ Constructor("aegis1", seed).availableLiquidity = seed
    /\ tx.pc = "done" =>
           ledger.balance - tx.pre.balance
               = ledger.availableLiquidity - tx.pre.availableLiquidity
    /\ (Succeeds("repay") /\ tx.nInner = 0) =>
           ledger.availableLiquidity - tx.pre.availableLiquidity
               = tx.call.value - RepayFee - RepayExcess
    /\ (Finishes("withdraw") \/ Finishes("withdrawFinancing")) =>
           LET r == Run(tx.pre, tx.call, now) IN
           (r.err = OK /\ r.xfers # <<>>) =>
               /\ FirstTransfer(tx.pre, tx.call, now).amount <= tx.pre.availableLiquidity
               /\ FirstTransfer(tx.pre, tx.call, now).amount <= r.st.balance
               /\ tx.err \in {OK, TransferFailed, PayoutTransferFailed}

\* a repayment with more than is owed has ended: the fee and the refund have
\* left, and what stays is the increase of availableLiquidity
C25_Witness ==
    /\ Succeeds("repay")
    /\ RepayFee > 0
    /\ RepayExcess > 0
    /\ ledger.balance = ledger.availableLiquidity
    /\ ledger.balance = tx.pre.balance + tx.call.value - RepayFee - RepayExcess

\* a payout takes all the value the pool holds
C25_WitnessPayout ==
    /\ Succeeds("withdrawFinancing")
    /\ tx.call.args.payoutAmount = tx.pre.balance
    /\ tx.pre.balance > 0
    /\ ledger.balance = 0

\* Solidity 0.8: a subtraction that would go below 0 reverts with a panic
ArithmeticPanic == "Panic(0x11)"

\* mutant: utilized is reported from totalFinanced
getPoolStatusFromFinanced(st) ==
    [err |-> OK, total |-> st.totalPoolSize, available |-> st.availableLiquidity,
     utilized |-> st.totalFinanced, financed |-> st.totalFinanced]

\* lines 344-356: the view getPoolStatus
getPoolStatus(st) ==
    IF st.totalPoolSize - st.availableLiquidity < 0
    THEN [err |-> ArithmeticPanic, total |-> 0, available |-> 0, utilized |-> 0,
          financed |-> 0]
    ELSE [err |-> OK, total |-> st.totalPoolSize, available |-> st.availableLiquidity,
          utilized |-> st.totalPoolSize - st.availableLiquidity,
          financed |-> st.totalFinanced]

\* the sum of payoutAmount over the invoices that are financed and not repaid
Outstanding(st) ==
    LET RECURSIVE Sum(_)
        Sum(S) == IF S = {} THEN 0
                  ELSE LET i == CHOOSE x \in S : TRUE
                       IN st.financingRecords[i].payoutAmount + Sum(S \ {i})
    IN Sum({i \in Invoices : InvoiceState(st, i) = "Financed"})

\* C26: in every reachable state, in the middle of a transaction too,
\* totalPoolSize - availableLiquidity is the sum of payoutAmount over the
\* invoices that are Financed (used and not repaid); getPoolStatus never
\* fails and reports that sum as utilized, next to totalPoolSize,
\* availableLiquidity and totalFinanced.
C26_Utilized ==
    /\ ledger.totalPoolSize - ledger.availableLiquidity = Outstanding(ledger)
    /\ getPoolStatus(ledger).err = OK
    /\ getPoolStatus(ledger).utilized = Outstanding(ledger)
    /\ getPoolStatus(ledger).utilized >= 0
    /\ getPoolStatus(ledger).total = ledger.totalPoolSize
    /\ getPoolStatus(ledger).available = ledger.availableLiquidity
    /\ getPoolStatus(ledger).financed = ledger.totalFinanced

\* one invoice was repaid and the other is financed: utilized is the payout
\* of the second, totalFinanced is the sum of the two
C26_Witness ==
    /\ tx.pc = "idle"
    /\ \E i, j \in Invoices :
          /\ InvoiceState(ledger, i) = "Repaid"
          /\ InvoiceState(ledger, j) = "Financed"
          /\ getPoolStatus(ledger).utilized = ledger.financingRecords[j].payoutAmount
          /\ getPoolStatus(ledger).financed =
                 ledger.financingRecords[i].payoutAmount
                     + ledger.financingRecords[j].payoutAmount

\* what a finished transaction paid into the position of account a, and what
\* it took out of it
PaidIn(a) ==
    IF tx.err = OK /\ tx.call.op \in {"deposit", "receive"} /\ tx.call.sender = a
    THEN tx.call.value ELSE 0

TakenOut(a) ==
    IF tx.err = OK /\ tx.call.op = "withdraw" /\ tx.call.sender = a
    THEN tx.call.args.amount ELSE 0

\* C27 (under LpSpec): withdraw(amount) succeeds only if 0 < amount <=
\* lpDeposits[caller] and amount <= availableLiquidity, and fails with the
\* error of the first of these that does not hold; a position is what its
\* account has deposited less what it has withdrawn, since a transaction
\* changes the position of an account by the value the account deposited or
\* the amount it withdrew in it and by nothing else, and a position is never
\* below 0: so no account withdraws more than it has deposited; the LP
\* interest repayments credited stays in totalPoolSize and in
\* availableLiquidity when the LPs have withdrawn all their positions.
C27_WithdrawWithinDeposits ==
    /\ (tx.pc \in {"call", "done"} /\ tx.call.op = "withdraw" /\ tx.err = OK) =>
           /\ 0 < tx.call.args.amount
           /\ tx.call.args.amount <= tx.pre.lpDeposits[tx.call.sender]
           /\ tx.call.args.amount <= tx.pre.availableLiquidity
    /\ Finishes("withdraw") =>
           /\ ~(0 < tx.call.args.amount) => tx.err = ZeroAmount
           /\ (0 < tx.call.args.amount
                 /\ tx.call.args.amount > tx.pre.lpDeposits[tx.call.sender])
                  => tx.err = InsufficientDeposit
           /\ (0 < tx.call.args.amount
                 /\ tx.call.args.amount <= tx.pre.lpDeposits[tx.call.sender]
                 /\ tx.call.args.amount > tx.pre.availableLiquidity)
                  => tx.err = InsufficientLiquidity
    /\ \A a \in Addr : ledger.lpDeposits[a] >= 0
    /\ (tx.pc = "done" /\ tx.nInner = 0) =>
           \A a \in Addr :
               ledger.lpDeposits[a] = tx.pre.lpDeposits[a] + PaidIn(a) - TakenOut(a)
    /\ tx.pc \in {"idle", "done"} =>
           /\ ledger.totalPoolSize - TotalPositions(ledger) = hist.lpInterest
           /\ ledger.availableLiquidity + Outstanding(ledger) - TotalPositions(ledger)
                  = hist.lpInterest
    /\ (tx.pc \in {"idle", "done"} /\ TotalPositions(ledger) = 0) =>
           ledger.totalPoolSize = hist.lpInterest
    /\ (Succeeds("withdraw") /\ tx.nInner = 0) =>
           ledger.totalPoolSize >= hist.lpInterest

\* an LP asks for its position and the interest the pool earned: the call is
\* turned down, although the pool holds the value
C27_Witness ==
    /\ Finishes("withdraw")
    /\ tx.err = InsufficientDeposit
    /\ hist.lpInterest > 0
    /\ ledger.lpDeposits[tx.call.sender] > 0
    /\ tx.call.args.amount <= ledger.availableLiquidity

\* every position was withdrawn and the interest is still in the pool
C27_WitnessStranded ==
    /\ Succeeds("withdraw")
    /\ TotalPositions(ledger) = 0
    /\ ledger.availableLiquidity = hist.lpInterest
    /\ hist.lpInterest > 0

\* the preconditions of withdrawFinancing in the order of the claim, each with
\* its error, for call c on storage st at time t
Preconditions(st, c, t) ==
    LET a == c.args
        sh == structHash(a.invoiceId, c.sender, a.payoutAmount, a.repaymentAmount,
                         a.dueDate, a.nonce, a.deadline)
    IN << [holds |-> ~st.usedInvoices[a.invoiceId], error |-> InvoiceAlreadyFinanced],
          [holds |-> t <= a.deadline, error |-> SignatureExpired],
          [holds |-> a.payoutAmount <= st.availableLiquidity, error |-> InsufficientLiquidity],
          [holds |-> a.repaymentAmount > a.payoutAmount, error |-> InvalidTerms],
          [holds |-> a.dueDate > t, error |-> InvalidDueDate],
          [holds |-> a.signature = Sign(st.aegisServerWallet,
                                        _hashTypedDataV4(ThisDomain, sh)),
           error |-> InvalidSignature] >>

Violated(st, c, t) == {k \in 1..6 : ~Preconditions(st, c, t)[k].holds}

\* the error of the first precondition of the order that does not hold
FirstViolated(st, c, t) ==
    LET v == Violated(st, c, t) IN
    Preconditions(st, c, t)[CHOOSE k \in v : \A m \in v : k <= m].error

\* C29 (under TermsSpec): a withdrawFinancing call that violates one or more of
\* its preconditions fails with the error of the first one violated in the
\* order InvoiceAlreadyFinanced, SignatureExpired, InsufficientLiquidity,
\* InvalidTerms, InvalidDueDate, InvalidSignature; so InvalidSignature is
\* reported only when the five others hold.  (A call made while a guarded
\* function is in progress does not reach these checks: the modifier reverts
\* it.)
C29_FirstFailingCheck ==
    /\ Finishes("withdrawFinancing") =>
           /\ Violated(tx.pre, tx.call, now) # {} =>
                  tx.err = FirstViolated(tx.pre, tx.call, now)
           /\ tx.err = InvalidSignature => Violated(tx.pre, tx.call, now) = {6}
    /\ (tx.pc = "call" /\ tx.inner.call.op = "withdrawFinancing") =>
           \/ tx.inner.err = ReentrancyBlocked
           \/ /\ Violated(tx.inner.pre, tx.inner.call, now) # {}
              /\ tx.inner.err = FirstViolated(tx.inner.pre, tx.inner.call, now)

\* an expired authorization for an invoice already financed
C29_Witness ==
    /\ Finishes("withdrawFinancing")
    /\ {1, 2} \subseteq Violated(tx.pre, tx.call, now)
    /\ tx.err = InvoiceAlreadyFinanced

\* all six preconditions are violated at once
C29_WitnessAll ==
    /\ Finishes("withdrawFinancing")
    /\ Violated(tx.pre, tx.call, now) = 1..6
    /\ tx.err = InvoiceAlreadyFinanced

\* terms, due date and signature are violated, the first three hold
C29_WitnessTerms ==
    /\ Finishes("withdrawFinancing")
    /\ Violated(tx.pre, tx.call, now) = {4, 5, 6}
    /\ tx.err = InvalidTerms

\* only the signature is wrong
C29_WitnessSignature ==
    /\ Finishes("withdrawFinancing")
    /\ tx.err = InvalidSignature

\* the withdrawFinancing in progress has created its record and is paying out
Creating == tx.pc = "call" /\ tx.call.op = "withdrawFinancing" /\ tx.nInner = 0

\* every record satisfies repaymentAmount > payoutAmount and dueDate >
\* timestamp; the record a withdrawFinancing creates carries the terms of the
\* call, the time of the call, repaid = false and the caller as supplier, and
\* the payout is sent to the caller
RecordsWellFormed ==
    /\ \A i \in Invoices :
           LET record == ledger.financingRecords[i] IN
           record # NoRecord =>
               /\ record.invoiceId = i
               /\ record.repaymentAmount > record.payoutAmount
               /\ record.dueDate > record.timestamp
               /\ ledger.usedInvoices[i]
    /\ Creating =>
           LET record == ledger.financingRecords[tx.call.args.invoiceId] IN
           /\ tx.pre.financingRecords[tx.call.args.invoiceId] = NoRecord
           /\ record.repaid = FALSE
           /\ record.supplier = tx.call.sender
           /\ record.timestamp = now
           /\ record.payoutAmount = tx.call.args.payoutAmount
           /\ record.repaymentAmount = tx.call.args.repaymentAmount
           /\ record.dueDate = tx.call.args.dueDate
           /\ tx.pending = <<Transfer(tx.call.sender, record.payoutAmount,
                                      PayoutTransferFailed)>>
    /\ (Succeeds("withdrawFinancing") /\ tx.nInner = 0) =>
           ledger.financingRecords[tx.call.args.invoiceId].supplier = tx.call.sender

BadTerms == tx.call.args.repaymentAmount <= tx.call.args.payoutAmount

BadDueDate == tx.call.args.dueDate <= now

\* the original C30: records are well formed, and a call with repaymentAmount
\* <= payoutAmount is rejected with InvalidTerms and one with dueDate <=
\* currentTime with InvalidDueDate
C30_RejectedWithTermsErrors ==
    /\ RecordsWellFormed
    /\ Finishes("withdrawFinancing") =>
           /\ BadTerms => tx.err = InvalidTerms
           /\ BadDueDate => tx.err = InvalidDueDate

\* C30 (amended, under TermsSpec): every FinancingRecord created satisfies
\* repaymentAmount > payoutAmount and dueDate > timestamp, has repaid = false
\* at creation, and its supplier is the caller of the withdrawFinancing that
\* created it and the recipient of the payout; a call with repaymentAmount <=
\* payoutAmount is rejected, with InvalidTerms when the invoice is unused, the
\* deadline has not passed and the payout is within the available liquidity;
\* one with dueDate <= currentTime is rejected, with InvalidDueDate when in
\* addition repaymentAmount > payoutAmount.
C30_RecordTerms ==
    /\ RecordsWellFormed
    /\ Finishes("withdrawFinancing") =>
           LET v == Violated(tx.pre, tx.call, now) IN
           /\ BadTerms => tx.err \notin {OK, PayoutTransferFailed}
                            /\ (v \cap {1, 2, 3} = {} => tx.err = InvalidTerms)
           /\ BadDueDate => tx.err \notin {OK, PayoutTransferFailed}
                              /\ (v \cap {1, 2, 3, 4} = {} => tx.err = InvalidDueDate)
    /\ (tx.pc = "call" /\ tx.inner.call.op = "withdrawFinancing") =>
           tx.inner.err # OK

\* a record is being created
C30_Witness ==
    /\ Creating
    /\ ledger.financingRecords[tx.call.args.invoiceId].supplier = tx.call.sender

\* repaymentAmount = payoutAmount is turned down with InvalidTerms
C30_WitnessTerms ==
    /\ Finishes("withdrawFinancing")
    /\ tx.call.args.repaymentAmount = tx.call.args.payoutAmount
    /\ tx.err = InvalidTerms

\* dueDate = currentTime is turned down with InvalidDueDate
C30_WitnessDueDate ==
    /\ Finishes("withdrawFinancing")
    /\ tx.call.args.dueDate = now
    /\ tx.err = InvalidDueDate

\* bad terms on a payout the pool cannot make: another error is reported
C30_WitnessOtherError ==
    /\ Finishes("withdrawFinancing")
    /\ BadTerms
    /\ tx.err = InsufficientLiquidity

\* record r with its repaid flag left out
Terms(r) ==
    [invoiceId |-> r.invoiceId, supplier |-> r.supplier, payoutAmount |-> r.payoutAmount,
     repaymentAmount |-> r.repaymentAmount, dueDate |-> r.dueDate,
     timestamp |-> r.timestamp]

\* C31: from the storage a transaction started on to every storage it reaches,
\* its nested calls and its end included, a FinancingRecord that existed keeps
\* its invoiceId, supplier, payoutAmount, repaymentAmount, dueDate and
\* timestamp and is not deleted, and an invoiceId that was in usedInvoices
\* stays in it; in every state an invoiceId is in usedInvoices exactly when a
\* FinancingRecord exists for it.
C31_RecordsImmutable ==
    /\ tx.pc \in {"call", "done"} =>
           \A i \in Invoices :
               /\ tx.pre.financingRecords[i] # NoRecord =>
                      /\ ledger.financingRecords[i] # NoRecord
                      /\ Terms(ledger.financingRecords[i]) = Terms(tx.pre.financingRecords[i])
               /\ tx.pre.usedInvoices[i] => ledger.usedInvoices[i]
    /\ \A i \in Invoices :
           ledger.usedInvoices[i] <=> ledger.financingRecords[i] # NoRecord

\* a repayment has changed the repaid flag of a record and nothing else of it
C31_Witness ==
    /\ Succeeds("repay")
    /\ ~tx.pre.financingRecords[tx.call.args.invoiceId].repaid
    /\ ledger.financingRecords[tx.call.args.invoiceId].repaid

\* a financing call for an invoice that has a record has ended
C31_WitnessResubmitted ==
    /\ Finishes("withdrawFinancing")
    /\ tx.pre.financingRecords[tx.call.args.invoiceId] # NoRecord

\* the offer of nonce n for invoice i has been financed: its repayment is recorded
Landed(st, i, n) ==
    /\ st.usedInvoices[i]
    /\ st.financingRecords[i].repaymentAmount = NonceTerms(i, n).repaymentAmount

\* C32 (under NonceSpec): the outcome of withdrawFinancing depends on the
\* storage and the call only, and the storage holds no nonce: a call passes
\* the checks (and fails, if it does, on the payout transfer alone) exactly
\* when the invoice is unused, the deadline, liquidity, terms and due date
\* checks hold and the values are the ones the authorizer signed, whichever
\* nonces were financed before; a call for an invoice already used fails with
\* InvoiceAlreadyFinanced whatever its nonce and signature, so of the offers
\* signed for one invoice at most one is ever financed.
C32_NonceNotTracked ==
    /\ Finishes("withdrawFinancing") =>
           /\ tx.err \in {OK, PayoutTransferFailed} <=> ChecksHold(tx.pre, tx.call, now)
           /\ tx.pre.usedInvoices[tx.call.args.invoiceId] => tx.err = InvoiceAlreadyFinanced
    /\ \A i \in Invoices : hist.financed[i] <= 1

\* an offer is financed under the nonce under which the offer for the other
\* invoice was financed before
C32_Witness ==
    /\ Succeeds("withdrawFinancing")
    /\ \E i \in Invoices :
           /\ i # tx.call.args.invoiceId
           /\ Landed(tx.pre, i, tx.call.args.nonce)

\* the second offer for an invoice, validly signed under another nonce, is
\* turned down with InvoiceAlreadyFinanced
C32_WitnessSecond ==
    /\ Finishes("withdrawFinancing")
    /\ tx.err = InvoiceAlreadyFinanced
    /\ tx.call.args.signature.signer = tx.pre.aegisServerWallet
    /\ now <= tx.call.args.deadline
    /\ \E n \in Nonces :
           /\ n # tx.call.args.nonce
           /\ Landed(tx.pre, tx.call.args.invoiceId, n)

\* the errors of a transaction that is aborted by a transfer that fails
TransferErrors == {TransferFailed, PayoutTransferFailed, FeeTransferFailed, RefundFailed}

\* C33: the guard's flag is set only while a transaction of deposit, withdraw,
\* withdrawFinancing or repay is in progress, and is clear whenever no
\* transaction is in progress, however the last one ended (committed, failed a
\* check, or aborted by a failed transfer); no transaction, as opposed to a
\* call nested in one, ends with ReentrancyGuardReentrantCall.
C33_GuardReleased ==
    /\ ledger.status = ENTERED => (tx.pc = "call" /\ tx.call.op \in Guarded)
    /\ tx.pc \in {"idle", "done"} => ledger.status = NOT_ENTERED
    /\ tx.pc = "done" => tx.err # ReentrancyBlocked
    /\ tx.pc = "idle" =>
           \A c \in Submissions \cup NestedCalls("supplier") \cup NestedCalls("lp") :
               Run(ledger, c, now).err # ReentrancyBlocked

\* a guarded transaction was aborted by a failed transfer after a nested call
\* was turned down by the guard: the flag is clear
C33_Witness ==
    /\ tx.pc = "done"
    /\ tx.call.op \in Guarded
    /\ tx.err \in TransferErrors
    /\ tx.nInner > 0
    /\ ledger.status = NOT_ENTERED

\* a guarded transaction committed
C33_WitnessCommitted ==
    /\ tx.pc = "done"
    /\ tx.call.op \in Guarded
    /\ tx.err = OK
    /\ ledger.status = NOT_ENTERED

\* the flag is set while a transfer is in progress
C33_WitnessSet == ledger.status = ENTERED

\* the interest of the repay in progress: what is owed less the payout
RepayInterest ==
    LET rec == tx.pre.financingRecords[tx.call.args.invoiceId] IN
    OwedAt(rec, now) - rec.payoutAmount

\* the protocol fee of that interest at a rate
FeeAt(rate) == (RepayInterest * rate) \div 10000

\* the repay in progress has written the storage and has made no transfer yet
RepayWritten ==
    /\ tx.pc = "call" /\ tx.call.op = "repay"
    /\ tx.pending = RepayTransfers

\* C34 (under FeeSpec, where every invoice was financed at fee rate 1000 with
\* the deployer as fee receiver): the protocol fee of a repayment is the
\* interest times the protocolFeeRate in the storage the repay runs on, over
\* 10000, it is sent to the protocolFeeReceiver of that storage, and the LP
\* interest is the rest; so after updateProtocolFeeRate or
\* updateProtocolFeeReceiver the repayment of an invoice financed before is
\* split at the new rate and its fee goes to the new receiver.  The rate is
\* at most 5000 in every state and repay makes no check of it.
C34_SplitAtRepayTime ==
    /\ ledger.protocolFeeRate <= MAX_FEE_RATE
    /\ \A i \in Invoices :
           ledger.usedInvoices[i] =>
               /\ ledger.financingRecords[i].timestamp = 0
               /\ FinancedAt0(i).protocolFeeRate = DEFAULT_FEE_RATE
               /\ FinancedAt0(i).protocolFeeReceiver = Deployer
    /\ (RepayWritten /\ FeeAt(tx.pre.protocolFeeRate) > 0) =>
           /\ Head(tx.pending).to = tx.pre.protocolFeeReceiver
           /\ Head(tx.pending).amount = FeeAt(tx.pre.protocolFeeRate)
    /\ (RepayWritten /\ FeeAt(tx.pre.protocolFeeRate) = 0) =>
           Head(tx.pending).msg = RefundFailed
    /\ Succeeds("repay") =>
           /\ PaidFee = FeeAt(tx.pre.protocolFeeRate)
           /\ Delta(tx.pre, ledger).totalPoolSize
                  = RepayInterest - FeeAt(tx.pre.protocolFeeRate)
           /\ Delta(tx.pre, ledger).totalInterestEarned = RepayInterest

\* an invoice financed at rate 1000 with the deployer as receiver is repaid
\* after the rate was set to 5000 and the receiver to another account: the fee
\* is half the interest, not a tenth, and goes to the new receiver
C34_Witness ==
    /\ RepayWritten
    /\ tx.pre.protocolFeeRate = MAX_FEE_RATE
    /\ tx.pre.protocolFeeReceiver # Deployer
    /\ Head(tx.pending) = Transfer("lp", 1000, FeeTransferFailed)
    /\ FeeAt(DEFAULT_FEE_RATE) = 200

\* the repayment committed at the changed rate
C34_WitnessCommitted ==
    /\ Succeeds("repay")
    /\ tx.pre.protocolFeeRate = 2500
    /\ PaidFee = 500
    /\ Delta(tx.pre, ledger).totalPoolSize = 1500

\* the functions that credit or debit the position of their caller
PositionFunctions == {"deposit", "receive", "withdraw"}

\* the accounts whose position differs between two storages
Moved(pre, st) == {a \in Addr : st.lpDeposits[a] # pre.lpDeposits[a]}

\* C35: while and after a transaction whose function is not deposit, receive
\* or withdraw (withdrawFinancing and repay among them) no position differs
\* from what it was when the transaction started, unless an account made a
\* deposit of its own from inside it; a deposit, receive or withdraw changes no
\* position but its caller's; and a nested call changes no position but that
\* of its caller, and only if it is a deposit, receive or withdraw.
C35_OwnPositionOnly ==
    /\ (tx.pc \in {"call", "done"} /\ tx.nInner = 0) =>
           Moved(tx.pre, ledger) \subseteq
               (IF tx.call.op \in PositionFunctions THEN {tx.call.sender} ELSE {})
    /\ (tx.pc = "call" /\ tx.inner.call # NoCall) =>
           Moved(tx.inner.pre, ledger) \subseteq
               (IF tx.inner.call.op \in PositionFunctions
                THEN {tx.inner.call.sender} ELSE {})
    /\ tx.pc = "idle" =>
           \A c \in Submissions \cup NestedCalls("supplier") :
               c.op \in {"withdrawFinancing", "repay"} =>
                   Moved(ledger, Run(ledger, c, now).st) = {}

\* a financing committed on a pool in which an account has a position
C35_Witness ==
    /\ Succeeds("withdrawFinancing")
    /\ tx.nInner = 0
    /\ \E a \in Addr : ledger.lpDeposits[a] > 0
    /\ ledger.availableLiquidity < tx.pre.availableLiquidity

\* a repayment committed: the interest is in the pool and in no position
C35_WitnessRepaid ==
    /\ Succeeds("repay")
    /\ tx.nInner = 0
    /\ ledger.totalPoolSize > tx.pre.totalPoolSize
    /\ TotalPositions(ledger) = TotalPositions(tx.pre)

\* an account withdraws while another account has a position
C35_WitnessOther ==
    /\ Succeeds("withdraw")
    /\ tx.nInner = 0
    /\ Moved(tx.pre, ledger) = {tx.call.sender}
    /\ \E a \in Addr : a # tx.call.sender /\ ledger.lpDeposits[a] > 0

\* the supplier deposits from inside the payout of its financing
C35_WitnessNested ==
    /\ tx.pc = "call" /\ tx.call.op = "withdrawFinancing"
    /\ tx.inner.call # NoCall
    /\ Moved(tx.inner.pre, ledger) = {tx.call.sender}

\* no invoice is financed and not repaid
NoneFinanced(st) == \A i \in Invoices : InvoiceState(st, i) # "Financed"

\* account a asks for its whole position
WithdrawAll(st, a) == Call("withdraw", a, 0, [amount |-> st.lpDeposits[a]])

\* C36 (under PoolSpec): in every state where no invoice is financed and not
\* repaid, availableLiquidity = totalPoolSize; between transactions in such a
\* state, the withdrawal of its whole position by any account that has one
\* passes its checks, leaves the account with no position, the others' as
\* they were and still no invoice financed, and the balance covers its
\* transfer, so it fails only if the transfer does: the LPs can withdraw one
\* after the other in any order; and when no position is left, totalPoolSize,
\* availableLiquidity and the balance are exactly the LP interest credited by
\* the repayments.
C36_AllCanWithdraw ==
    /\ NoneFinanced(ledger) => ledger.availableLiquidity = ledger.totalPoolSize
    /\ (tx.pc = "idle" /\ NoneFinanced(ledger)) =>
           \A a \in Addr :
               ledger.lpDeposits[a] > 0 =>
                   LET r == Run(ledger, WithdrawAll(ledger, a), now) IN
                   /\ r.err = OK
                   /\ r.xfers = <<Transfer(a, ledger.lpDeposits[a], TransferFailed)>>
                   /\ r.st.balance >= ledger.lpDeposits[a]
                   /\ r.st.lpDeposits = [ledger.lpDeposits EXCEPT ![a] = 0]
                   /\ NoneFinanced(r.st)
                   /\ r.st.availableLiquidity = r.st.totalPoolSize
    /\ (Finishes("withdraw") /\ NoneFinanced(tx.pre)
          /\ tx.call = WithdrawAll(tx.pre, tx.call.sender)
          /\ tx.pre.lpDeposits[tx.call.sender] > 0) =>
           /\ tx.err \in {OK, TransferFailed}
           /\ (tx.err = OK /\ tx.nInner = 0) => ledger.lpDeposits[tx.call.sender] = 0
    /\ (tx.pc \in {"idle", "done"} /\ NoneFinanced(ledger) /\ TotalPositions(ledger) = 0) =>
           /\ ledger.totalPoolSize = hist.lpInterest
           /\ ledger.availableLiquidity = hist.lpInterest
           /\ ledger.balance = hist.lpInterest

\* every invoice financed was repaid and the last position has been
\* withdrawn: the pool holds the LP interest
C36_Witness ==
    /\ Succeeds("withdraw")
    /\ tx.call = WithdrawAll(tx.pre, tx.call.sender)
    /\ NoneFinanced(ledger)
    /\ TotalPositions(ledger) = 0
    /\ hist.lpInterest > 0
    /\ ledger.balance = hist.lpInterest

\* the deployer withdraws its whole position first, another LP still has one
C36_WitnessDeployerFirst ==
    /\ Succeeds("withdraw")
    /\ tx.call = WithdrawAll(tx.pre, Deployer)
    /\ NoneFinanced(ledger) /\ hist.lpInterest > 0
    /\ ledger.lpDeposits["lp"] > 0

\* the other LP withdraws its whole position first
C36_WitnessDeployerLast ==
    /\ Succeeds("withdraw")
    /\ tx.call = WithdrawAll(tx.pre, "lp")
    /\ tx.call.args.amount > 0
    /\ NoneFinanced(ledger) /\ hist.lpInterest > 0
    /\ ledger.lpDeposits[Deployer] > 0

\* the sum of the payouts of the records of storage st, repaid or not
PayoutsOf(st, invoices) ==
    LET RECURSIVE Sum(_)
        Sum(S) == IF S = {} THEN 0
                  ELSE LET i == CHOOSE x \in S : TRUE
                       IN (IF st.financingRecords[i] # NoRecord
                           THEN st.financingRecords[i].payoutAmount ELSE 0)
                          + Sum(S \ {i})
    IN Sum(invoices)

\* C37: in every state totalFinanced is the sum of payoutAmount over the
\* FinancingRecords, repaid or not; a transaction adds to it the payoutAmount
\* of the call if it is a withdrawFinancing that commits and nothing
\* otherwise, so it never decreases; totalInterestEarned is 0 at deployment, a
\* transaction adds to it the interest of the repayment (the protocol fee
\* sent out plus the LP interest added to totalPoolSize) if it is a repay that
\* commits and nothing otherwise, so it never decreases and is the sum of
\* protocolFee + lpInterest over the repayments.
C37_CumulativeTotals ==
    /\ ledger.totalFinanced = PayoutsOf(ledger, Invoices)
    /\ \A seed \in Seeds :
           /\ Constructor("aegis1", seed).totalFinanced = 0
           /\ Constructor("aegis1", seed).totalInterestEarned = 0
    /\ tx.pc \in {"call", "done"} =>
           /\ ledger.totalFinanced >= tx.pre.totalFinanced
           /\ ledger.totalInterestEarned >= tx.pre.totalInterestEarned
    /\ tx.pc = "done" =>
           /\ ledger.totalFinanced - tx.pre.totalFinanced =
                 (IF Succeeds("withdrawFinancing") THEN tx.call.args.payoutAmount ELSE 0)
           /\ ledger.totalInterestEarned - tx.pre.totalInterestEarned =
                 (IF Succeeds("repay") THEN RepayInterest ELSE 0)
    /\ Succeeds("repay") =>
           /\ RepayInterest = FeeAt(tx.pre.protocolFeeRate)
                                + lpInterestOf(tx.pre, tx.call.args.invoiceId, now)
           /\ RepayInterest > 0
           /\ tx.nInner = 0 =>
                  RepayInterest = PaidFee + (ledger.totalPoolSize - tx.pre.totalPoolSize)

\* a repayment commits: totalFinanced keeps the payout of the repaid invoice,
\* totalInterestEarned grows by the fee and the LP interest
C37_Witness ==
    /\ Succeeds("repay")
    /\ tx.nInner = 0
    /\ ledger.totalFinanced = tx.pre.totalFinanced
    /\ ledger.totalFinanced >= tx.pre.financingRecords[tx.call.args.invoiceId].payoutAmount
    /\ ledger.totalFinanced > 0
    /\ PaidFee > 0
    /\ ledger.totalInterestEarned > tx.pre.totalInterestEarned

\* a second financing commits: totalFinanced is the sum of both payouts, one
\* of them of a repaid invoice
C37_WitnessSum ==
    /\ Succeeds("withdrawFinancing")
    /\ ledger.totalFinanced = 100000
    /\ \E i \in Invoices : ledger.financingRecords[i].repaid

\* storage st with the settings of storage new that function op may write
WithSettings(st, op, new) ==
    CASE op = "updateAegisWallet" ->
             [st EXCEPT !.aegisServerWallet = new.aegisServerWallet,
                        !.roles[AEGIS_ROLE] = new.roles[AEGIS_ROLE]]
      [] op = "updateProtocolFeeRate" -> [st EXCEPT !.protocolFeeRate = new.protocolFeeRate]
      [] op = "updateProtocolFeeReceiver" ->
             [st EXCEPT !.protocolFeeReceiver = new.protocolFeeReceiver]

\* C38: a transaction of updateAegisWallet, updateProtocolFeeRate or
\* updateProtocolFeeReceiver leaves the storage as it was but for,
\* respectively, aegisServerWallet and the holders of AEGIS_ROLE, the
\* protocolFeeRate, and the protocolFeeReceiver: totalPoolSize,
\* availableLiquidity, totalFinanced, totalInterestEarned, the positions, the
\* records, usedInvoices and the balance are unchanged; these functions make
\* no transfer; and the same holds of a call of one of them nested in a
\* transfer.
C38_AdminFrame ==
    /\ (tx.pc = "done" /\ tx.call.op \in AdminFunctions) =>
           /\ ledger = WithSettings(tx.pre, tx.call.op, ledger)
           /\ ledger.balance = tx.pre.balance
           /\ tx.nInner = 0
    /\ tx.pc = "call" => tx.call.op \notin AdminFunctions
    /\ (tx.pc = "call" /\ tx.inner.call.op \in AdminFunctions) =>
           ledger = WithSettings(tx.inner.pre, tx.inner.call.op, ledger)
    /\ tx.pc = "idle" =>
           \A a \in Admins :
               /\ \A w \in NewWallets :
                      Run(ledger, Call("updateAegisWallet", a, 0, [newWallet |-> w]), now).xfers
                          = <<>>
               /\ \A r \in NewRates :
                      Run(ledger, Call("updateProtocolFeeRate", a, 0, [newRate |-> r]), now).xfers
                          = <<>>
               /\ \A r \in NewReceivers :
                      Run(ledger, Call("updateProtocolFeeReceiver", a, 0, [newReceiver |-> r]),
                          now).xfers = <<>>

\* the authorizer is rotated on a pool that has financed an invoice
C38_Witness ==
    /\ Succeeds("updateAegisWallet")
    /\ ledger.aegisServerWallet # tx.pre.aegisServerWallet
    /\ ledger.roles[AEGIS_ROLE] # tx.pre.roles[AEGIS_ROLE]
    /\ ledger.totalFinanced > 0

\* the fee receiver is changed on a pool that has earned interest
C38_WitnessReceiver ==
    /\ Succeeds("updateProtocolFeeReceiver")
    /\ ledger.protocolFeeReceiver # tx.pre.protocolFeeReceiver
    /\ ledger.totalInterestEarned > 0
    /\ ledger.balance > 0

\* the fee rate is changed from inside a transfer
C38_WitnessNested ==
    /\ tx.pc = "call"
    /\ tx.inner.call.op = "updateProtocolFeeRate"
    /\ tx.inner.err = OK
    /\ ledger.protocolFeeRate # tx.inner.pre.protocolFeeRate

\* storage st is storage pre with amount credited to the position of account
\* a, to totalPoolSize and to availableLiquidity, the value received, and
\* nothing else changed
Credited(pre, st, a, amount) ==
    st = [pre EXCEPT !.lpDeposits[a] = @ + amount,
                     !.totalPoolSize = @ + amount,
                     !.availableLiquidity = @ + amount,
                     !.balance = @ + amount]

\* the call of deposit() by the sender of call c with the value of c
AsDeposit(c) == Call("deposit", c.sender, c.value, NoArgs)

\* the storage and the error a transaction of call c ends with on storage st,
\* when c makes no transfer
Outcome(st, c, t) ==
    LET r == Run(st, c, t) IN
    [err |-> r.err, st |-> IF r.err = OK THEN Exit(r.st, c) ELSE st]

\* C39 (under PoolSpec): a plain value transfer of amount > 0 to the contract,
\* as a transaction or from inside a transfer the contract is making, adds
\* amount to the sender's position, to totalPoolSize and to
\* availableLiquidity and changes nothing else; one of amount 0 fails with
\* "Amount must be greater than 0" and changes nothing; and as a transaction
\* it ends with the error and the storage that deposit() called by the same
\* sender with the same value ends with, and conversely.
C39_ReceiveIsDeposit ==
    /\ Finishes("receive") =>
           /\ IF tx.call.value > 0
              THEN tx.err = OK /\ Credited(tx.pre, ledger, tx.call.sender, tx.call.value)
              ELSE tx.err = ZeroAmount /\ ledger = tx.pre
           /\ Outcome(tx.pre, AsDeposit(tx.call), now) = [err |-> tx.err, st |-> ledger]
    /\ Finishes("deposit") =>
           Outcome(tx.pre, [tx.call EXCEPT !.op = "receive"], now)
               = [err |-> tx.err, st |-> ledger]
    /\ (tx.pc = "call" /\ tx.inner.call.op = "receive") =>
           IF tx.inner.call.value > 0
           THEN /\ tx.inner.err = OK
                /\ Credited(tx.inner.pre, ledger, tx.inner.call.sender, tx.inner.call.value)
           ELSE tx.inner.err = ZeroAmount /\ ledger = tx.inner.pre
    /\ tx.pc = "idle" =>
           \A a \in PoolDepositors, v \in PoolAmounts :
               Outcome(ledger, Call("receive", a, v, NoArgs), now)
                   = Outcome(ledger, Call("deposit", a, v, NoArgs), now)

\* a plain transfer is credited to the position of an account that had none,
\* in a pool that has other positions and a financed invoice
C39_Witness ==
    /\ Succeeds("receive")
    /\ tx.pre.lpDeposits[tx.call.sender] = 0
    /\ ledger.lpDeposits[tx.call.sender] = tx.call.value
    /\ ledger.totalPoolSize = tx.pre.totalPoolSize + tx.call.value
    /\ ledger.totalPoolSize > ledger.availableLiquidity

\* a plain transfer of 0 is turned down
C39_WitnessZero ==
    /\ Finishes("receive")
    /\ tx.call.value = 0
    /\ tx.err = ZeroAmount

\* what the observer keeps: the four totals, the positions, and the amount of
\* the FinancingWithdrawn event of each invoice (0 when it has seen none)
Observed(st) ==
    [totalPoolSize |-> st.totalPoolSize,
     availableLiquidity |-> st.availableLiquidity,
     totalFinanced |-> st.totalFinanced,
     totalInterestEarned |-> st.totalInterestEarned,
     lpDeposits |-> st.lpDeposits,
     financed |-> [i \in Invoices |-> st.financingRecords[i].payoutAmount]]

\* the observer reads an event
Observe(o, e) ==
    CASE e.event = "Deposit" ->
             [o EXCEPT !.lpDeposits[e.lp] = @ + e.amount,
                       !.totalPoolSize = @ + e.amount,
                       !.availableLiquidity = @ + e.amount]
      [] e.event = "Withdrawal" ->
             [o EXCEPT !.lpDeposits[e.lp] = @ - e.amount,
                       !.totalPoolSize = @ - e.amount,
                       !.availableLiquidity = @ - e.amount]
      [] e.event = "FinancingWithdrawn" ->
             [o EXCEPT !.availableLiquidity = @ - e.amount,
                       !.totalFinanced = @ + e.amount,
                       !.financed[e.invoiceId] = e.amount]
      [] e.event = "Repayment" ->
             [o EXCEPT !.availableLiquidity = @ + o.financed[e.invoiceId],
                       !.totalInterestEarned = @ + e.interest]
      [] e.event = "InterestDistributed" ->
             [o EXCEPT !.totalPoolSize = @ + e.lpShare,
                       !.availableLiquidity = @ + e.lpShare]
      [] OTHER -> o

\* the observer reads a sequence of events
Replay(o, es) ==
    LET RECURSIVE Read(_, _)
        Read(x, k) == IF k > Len(es) THEN x ELSE Read(Observe(x, es[k]), k + 1)
    IN Read(o, 1)

\* the observer before the deployment, and the event of the constructor
Unseen ==
    [totalPoolSize |-> 0, availableLiquidity |-> 0, totalFinanced |-> 0,
     totalInterestEarned |-> 0, lpDeposits |-> [a \in Addr |-> 0],
     financed |-> [i \in Invoices |-> 0]]

ConstructorEvents(seed) ==
    IF seed > 0 THEN <<DepositEvent(Deployer, seed, seed)>> ELSE <<>>

\* the storage the function of a transaction has written, with no nested
\* call, is what the observer gets from the storage before and its events
OwnEventsTell ==
    (tx.pc \in {"call", "done"} /\ tx.err = OK /\ tx.nInner = 0) =>
        Observed(ledger) = Replay(Observed(tx.pre), Events(tx.pre, tx.call, now))

\* the same for a nested call; one that fails emits nothing and writes nothing
NestedEventsTell ==
    (tx.pc = "call" /\ tx.inner.call # NoCall) =>
        IF tx.inner.err = OK
        THEN Observed(ledger)
                 = Replay(Observed(tx.inner.pre), Events(tx.inner.pre, tx.inner.call, now))
        ELSE ledger = tx.inner.pre

\* a transaction that fails leaves the storage it started on
FailedTellsNothing == (tx.pc = "done" /\ tx.err # OK) => ledger = tx.pre

\* the steps that emit nothing change nothing the observer keeps: a transfer
\* that returns, the end of a transaction, the clock
SilentSteps ==
    /\ (tx.pc = "call" /\ tx'.nInner = tx.nInner /\ ~(tx'.pc = "done" /\ tx'.err # OK))
           => Observed(ledger') = Observed(ledger)
    /\ tx.pc = "done" => ledger' = ledger
    /\ (tx.pc = "idle" /\ tx'.pc = "idle") => ledger' = ledger

\* C40: the observer that starts from the deployment and reads the events in
\* order holds totalPoolSize, availableLiquidity, totalFinanced,
\* totalInterestEarned and every position of the storage: the constructor's
\* event gives the storage deployed; the events of a call that commits, as a
\* transaction or nested in one, turn what the observer held before the call
\* into what the storage holds after its writes; nothing else the observer
\* keeps changes in a step that emits no event; and a transaction that fails
\* emits none and leaves the storage as it was.
C40_EventsTellTheLedger ==
    /\ [](/\ \A seed \in Seeds :
                Observed(Constructor("aegis1", seed)) = Replay(Unseen, ConstructorEvents(seed))
          /\ OwnEventsTell
          /\ NestedEventsTell
          /\ FailedTellsNothing)
    /\ [][SilentSteps]_vars

\* a repayment commits: the observer adds the payout it saw financed and the
\* LP share to availableLiquidity, the LP share to totalPoolSize and the
\* interest to totalInterestEarned
C40_Witness ==
    /\ Succeeds("repay")
    /\ tx.nInner = 0
    /\ Len(Events(tx.pre, tx.call, now)) = 2
    /\ Events(tx.pre, tx.call, now)[2].protocolShare > 0
    /\ Observed(ledger) # Observed(tx.pre)
    /\ Observed(ledger) = Replay(Observed(tx.pre), Events(tx.pre, tx.call, now))

\* a plain transfer made from inside a withdrawal emits its Deposit event
C40_WitnessNested ==
    /\ tx.pc = "call"
    /\ tx.inner.call.op = "receive"
    /\ tx.inner.err = OK
    /\ Observed(ledger) # Observed(tx.inner.pre)

====
